---------------------------- MODULE Spec2Model ----------------------------
(***************************************************************************)
(* A model of the quantitative core of stock_agents:                       *)
(*   StrategyAgent  (src/src/agents/strategy_agent.py)  backtests, grid    *)
(*   PlayAgent      (src/src/agents/play_agent.py)      recommendations    *)
(*   RiskAgent      (src/src/agents/risk_agent.py)      VaR, shortfall     *)
(*                                                                         *)
(* Floats are modelled by exact rationals <<num, den>> with den > 0 and    *)
(* gcd(num, den) = 1; the three non-finite floats are <<0,0>> (NaN),       *)
(* <<1,0>> (+inf) and <<-1,0>> (-inf).  A pandas Series is a sequence of   *)
(* such values (1-indexed: bar t of the model is row t-1 of the frame), a  *)
(* DataFrame is a function from column names to equally long sequences,    *)
(* and a Python dict that a handler returns is a record; the empty dict    *)
(* {} that every handler returns from its except branch is EmptyDict.      *)
(***************************************************************************)
EXTENDS Integers, Sequences, FiniteSets, TLC

VARIABLES
    pc,      \* "idle" before the call, "done" after it returned
    call,    \* the operation called and the arguments it was called with
    frame,   \* the caller's price data (a DataFrame, or a dict of them)
    result   \* what the call returned

vars == <<pc, call, frame, result>>

-----------------------------------------------------------------------------
(* Bounds of the model *)

\* The longest price series a backtest is called on.
MaxBars == 4

\* The closing prices a bar can have.
Prices == {1, 2, 3}

-----------------------------------------------------------------------------
(* Floats as exact rationals *)

NaN == <<0, 0>>

PosInf == <<1, 0>>

NegInf == <<-1, 0>>

Abs(x) == IF x < 0 THEN -x ELSE x

Sign(x) == IF x < 0 THEN -1 ELSE IF x > 0 THEN 1 ELSE 0

RECURSIVE GCD(_, _)
GCD(a, b) == IF b = 0 THEN a ELSE GCD(b, a % b)

\* The float num/den.  A zero divisor gives what numpy's float64 division
\* gives: 0/0 is NaN, x/0 is an infinity with the sign of x.
Rat(num, den) ==
    IF den = 0 THEN <<Sign(num), 0>>
    ELSE LET g == GCD(Abs(num), Abs(den))
             s == IF den < 0 THEN -1 ELSE 1
         IN  <<(s * num) \div g, (s * den) \div g>>

R(i) == <<i, 1>>

IsNaN(x) == x = NaN

IsFinite(x) == x[2] # 0

\* Arithmetic of IEEE floats, exact on the finite ones.
RAdd(x, y) ==
    IF IsFinite(x) /\ IsFinite(y)
    THEN LET g == GCD(x[2], y[2])
         IN  Rat(x[1] * (y[2] \div g) + y[1] * (x[2] \div g), (x[2] \div g) * y[2])
    ELSE IF IsNaN(x) \/ IsNaN(y) THEN NaN
    ELSE IF IsFinite(x) THEN y
    ELSE IF IsFinite(y) THEN x
    ELSE IF x = y THEN x ELSE NaN

RNeg(x) == <<-x[1], x[2]>>

RSub(x, y) == RAdd(x, RNeg(y))

RMul(x, y) ==
    IF IsFinite(x) /\ IsFinite(y)
    THEN LET g1 == GCD(Abs(x[1]), y[2])
             g2 == GCD(Abs(y[1]), x[2])
         IN  Rat((x[1] \div g1) * (y[1] \div g2), (x[2] \div g2) * (y[2] \div g1))
    ELSE IF IsNaN(x) \/ IsNaN(y) THEN NaN
    ELSE <<Sign(x[1]) * Sign(y[1]), 0>>

RDiv(x, y) ==
    IF IsFinite(x) /\ IsFinite(y)
    THEN IF y[1] = 0 THEN <<Sign(x[1]), 0>>
         ELSE RMul(x, Rat(y[2], y[1]))
    ELSE IF IsNaN(x) \/ IsNaN(y) THEN NaN
    ELSE IF IsFinite(x) THEN R(0)
    ELSE IF IsFinite(y) THEN <<x[1] * (IF y[1] < 0 THEN -1 ELSE 1), 0>>
    ELSE NaN

RAbs(x) == <<Abs(x[1]), x[2]>>

\* x < y as floats compare: every comparison with NaN is False.
RLess(x, y) ==
    /\ ~IsNaN(x)
    /\ ~IsNaN(y)
    /\ IF IsFinite(x) /\ IsFinite(y) THEN x[1] * y[2] < y[1] * x[2]
       ELSE IF IsFinite(x) THEN y = PosInf
       ELSE IF IsFinite(y) THEN x = NegInf
       ELSE x = NegInf /\ y = PosInf

RGreater(x, y) == RLess(y, x)

RLeq(x, y) == ~IsNaN(x) /\ ~IsNaN(y) /\ ~RLess(y, x)

\* Python's built-in min(x, y): y when y < x, else x (so min(nan, 1.0) is nan).
PyMin(x, y) == IF RLess(y, x) THEN y ELSE x

-----------------------------------------------------------------------------
(* pandas Series operations *)

Range(s) == {s[i] : i \in DOMAIN s}

\* The values of s that are not NaN, in order (pandas skips NaN in reductions).
DropNaN(s) == SelectSeq(s, LAMBDA x : ~IsNaN(x))

\* The sum of rows lo..hi, by halves: the exact sum does not depend on the
\* order of the additions, and a window of 50 rows is summed 6 calls deep.
RECURSIVE RSumOver(_, _, _)
RSumOver(s, lo, hi) ==
    IF lo > hi THEN R(0)
    ELSE IF lo = hi THEN RAdd(s[lo], R(0))
    ELSE RAdd(RSumOver(s, lo, (lo + hi) \div 2), RSumOver(s, (lo + hi) \div 2 + 1, hi))

RSum(s) == CHOOSE sum \in {RSumOver(v, 1, Len(v)) : v \in {s}} : TRUE

\* Series.pct_change(periods): close[t] / close[t - periods] - 1, NaN for the
\* first `periods` rows.
PctChange(s, periods) ==
    [t \in DOMAIN s |->
        IF t - periods \in DOMAIN s
        THEN RSub(RDiv(s[t], s[t - periods]), R(1))
        ELSE NaN]

\* Series.shift(1): row t takes row t-1, the first row is NaN.
Shift1(s) == [t \in DOMAIN s |-> IF t = 1 THEN NaN ELSE s[t - 1]]

\* Series.diff(): row t minus row t-1, the first row is NaN.
Diff(s) == [t \in DOMAIN s |-> IF t = 1 THEN NaN ELSE RSub(s[t], s[t - 1])]

\* Series.cumprod(): NaN rows stay NaN and are skipped by the running product.
RECURSIVE ProdTo(_, _)
ProdTo(s, t) ==
    IF t = 0 THEN R(1)
    ELSE IF IsNaN(s[t]) THEN ProdTo(s, t - 1)
    ELSE RMul(ProdTo(s, t - 1), s[t])

CumProd(s) == [t \in DOMAIN s |-> IF IsNaN(s[t]) THEN NaN ELSE ProdTo(s, t)]

\* Series.cummax(): NaN rows stay NaN and are skipped by the running maximum.
RECURSIVE MaxTo(_, _)
MaxTo(s, t) ==
    IF t = 0 THEN NaN
    ELSE LET m == MaxTo(s, t - 1)
         IN  IF IsNaN(s[t]) THEN m
             ELSE IF IsNaN(m) \/ RLess(m, s[t]) THEN s[t] ELSE m

CumMax(s) == [t \in DOMAIN s |-> IF IsNaN(s[t]) THEN NaN ELSE MaxTo(s, t)]

\* Series.min(): the least value that is not NaN, NaN when there is none.
RECURSIVE MinTo(_, _)
MinTo(s, t) ==
    IF t = 0 THEN NaN
    ELSE LET m == MinTo(s, t - 1)
         IN  IF IsNaN(s[t]) THEN m
             ELSE IF IsNaN(m) \/ RLess(s[t], m) THEN s[t] ELSE m

SeriesMin(s) == MinTo(s, Len(s))

\* Series.mean(): NaN skipped, NaN when nothing is left.
Mean(s) ==
    LET v == DropNaN(s)
    IN  IF v = <<>> THEN NaN ELSE RDiv(RSum(v), R(Len(v)))

\* Series.var() (ddof = 1): NaN skipped, NaN with fewer than two values.
\* Series.std() is its square root, so std = 0 exactly when var = 0.
Var(s) ==
    LET v == DropNaN(s)
        m == Mean(s)
    IN  IF Len(v) < 2 THEN NaN
        ELSE RDiv(RSum([i \in DOMAIN v |-> RMul(RSub(v[i], m), RSub(v[i], m))]),
                  R(Len(v) - 1))

\* (series > 0).sum(): the number of rows greater than zero.
CountPositive(s) == Cardinality({t \in DOMAIN s : RGreater(s[t], R(0))})

\* The dict {} a handler returns from its except branch.
EmptyDict == [empty |-> TRUE]

-----------------------------------------------------------------------------
(* StrategyAgent: the two backtests *)

\* Call parameters the model varies.  commission_rate and initial_capital are
\* arguments of both backtests; the model calls them with these values.
CommissionRates == {R(0), Rat(1, 10)}

InitialCapital == R(100)

\* The columns of a fetched price frame and a frame that lacks 'Close'.
PriceFrame(closes) == [c \in {"Close"} |-> closes]

NoCloseFrame(n) == [c \in {"Volume"} |-> [t \in 1..n |-> R(1)]]

\* np.where(data['Momentum'] > 0, 1, -1): a NaN momentum compares False.
MomentumSignal(momentum) ==
    [t \in DOMAIN momentum |-> IF RGreater(momentum[t], R(0)) THEN R(1) ELSE R(-1)]

\* A position without the lag: the signal of the same bar.
PositionOfSameBar(signal) == signal

\* A position that looks ahead: Signal.shift(-1), the signal of the next bar.
PositionOfLookAhead(signal) ==
    [t \in DOMAIN signal |-> IF t = Len(signal) THEN NaN ELSE signal[t + 1]]

\* data['Position'] = data['Signal'].shift(1)
PositionOf(signal) == Shift1(signal)

\* data[name] = column for every column of `columns`, in place.
Assign(df, columns) ==
    [c \in DOMAIN df \cup DOMAIN columns |->
        IF c \in DOMAIN columns THEN columns[c] ELSE df[c]]

\* Lines 60-69 and 142-152, the same in both backtests: the columns
\* Strategy_Returns, Trades, Commission, Strategy_Returns_Net and Equity.
StrategyReturns(position, returns) ==
    [t \in DOMAIN position |-> RMul(position[t], returns[t])]

Trades(position) == [t \in DOMAIN position |-> RAbs(Diff(position)[t])]

Commission(trades, commission_rate) ==
    [t \in DOMAIN trades |-> RMul(trades[t], commission_rate)]

StrategyReturnsNet(strategy_returns, commission) ==
    [t \in DOMAIN commission |-> RSub(strategy_returns[t], commission[t])]

Equity(net, initial_capital) ==
    LET growth == CumProd([t \in DOMAIN net |-> RAdd(R(1), net[t])])
    IN  [t \in DOMAIN net |-> RMul(growth[t], initial_capital)]

\* Lines 77-79 and 160-162: the running peak and the drawdown columns.
Drawdown(equity, peak) ==
    [t \in DOMAIN equity |-> RDiv(RSub(equity[t], peak[t]), peak[t])]

\* A finite nonzero float that no rational of the model holds, known by its
\* sign: the value of a fractional power or of a quotient by a square root.
Inexact(sign) == <<sign, -1>>

\* The sign of annual_return = (1 + total_return) ** (252 / n) - 1 (line 73),
\* or NaN.  A negative base has a power only for an integral exponent: numpy
\* gives NaN for the others.
AnnualReturnSign(n, total_return) ==
    LET base == RAdd(R(1), total_return)
    IN  IF IsNaN(total_return) THEN NaN
        ELSE IF ~RLess(base, R(0)) THEN R(Sign(total_return[1]))
        ELSE IF 252 % n # 0 THEN NaN
        ELSE IF (252 \div n) % 2 = 1 THEN R(-1)
        ELSE R(Sign(RSub(RAbs(base), R(1))[1]))

\* sharpe_ratio = annual_return / volatility if volatility != 0 else 0
\* (line 75): 0 for a volatility of 0, NaN for a volatility or an annual
\* return that is NaN (NaN != 0 holds), 0 for an annual return of 0, and
\* otherwise a nonzero float with the sign of the annual return.
SharpeRatio(n, total_return, volatility_sq) ==
    LET annual == AnnualReturnSign(n, total_return)
    IN  IF volatility_sq = R(0) THEN R(0)
        ELSE IF IsNaN(volatility_sq) \/ IsNaN(annual) THEN NaN
        ELSE IF annual = R(0) THEN R(0)
        ELSE Inexact(annual[1])

\* Lines 72-97 and 155-180: the result dict.  'volatility' is std * sqrt(252);
\* the model keeps its square, 252 * var, which is exact.  'annual_return' is
\* a fractional power and is left out; 'sharpe_ratio' is held as SharpeRatio
\* gives it: exactly where it is 0 or NaN, by its sign elsewhere.
Metrics(n, net, trades, equity, drawdown, initial_capital) ==
    LET winning_trades == CountPositive(net)
        total_trades == CountPositive(trades)
    IN  [empty |-> FALSE,
         total_return |-> RSub(RDiv(equity[n], initial_capital), R(1)),
         volatility_sq |-> RMul(R(252), Var(net)),
         sharpe_ratio |-> SharpeRatio(n, RSub(RDiv(equity[n], initial_capital), R(1)),
                                      RMul(R(252), Var(net))),
         max_drawdown |-> SeriesMin(drawdown),
         win_rate |-> IF total_trades > 0 THEN Rat(winning_trades, total_trades) ELSE R(0),
         total_trades |-> total_trades,
         equity_curve |-> equity,
         drawdown_curve |-> drawdown]

\* What both backtests do once Returns and Position are in the frame: the frame
\* as the call leaves it and the dict it returns.  With no rows, line 72 / 155
\* (.iloc[-1]) raises IndexError after the columns up to Equity were written.
Simulate(df, position, returns, initial_capital, commission_rate) ==
    LET strategy_returns == StrategyReturns(position, returns)
        trades == Trades(position)
        commission == Commission(trades, commission_rate)
        net == StrategyReturnsNet(strategy_returns, commission)
        equity == Equity(net, initial_capital)
        peak == CumMax(equity)
        drawdown == Drawdown(equity, peak)
        written == [Strategy_Returns |-> strategy_returns, Trades |-> trades,
                    Commission |-> commission, Strategy_Returns_Net |-> net,
                    Equity |-> equity]
    IN  IF Len(position) = 0
        THEN [frame |-> Assign(df, written), result |-> EmptyDict]
        ELSE [frame |-> Assign(Assign(df, written),
                               [Peak |-> peak, Drawdown |-> drawdown]),
              result |-> Metrics(Len(position), net, trades, equity, drawdown,
                                 initial_capital)]

\* Lines 52-58: the position the momentum backtest holds at each bar.
MomentumPosition(close, lookback_period) ==
    PositionOf(MomentumSignal(PctChange(close, lookback_period)))

\* A momentum backtest that reads holding_period: the momentum is taken over
\* lookback_period + holding_period - 1 bars.
BacktestMomentumHolding(data, lookback_period, holding_period, initial_capital, commission_rate) ==
    IF "Close" \notin DOMAIN data THEN [frame |-> data, result |-> EmptyDict]
    ELSE
    LET returns == PctChange(data["Close"], 1)
        momentum == PctChange(data["Close"], lookback_period + holding_period - 1)
        signal == MomentumSignal(momentum)
        position == PositionOf(signal)
    IN  Simulate(Assign(data, [Returns |-> returns, Momentum |-> momentum,
                               Signal |-> signal, Position |-> position]),
                 position, returns, initial_capital, commission_rate)

\* StrategyAgent.backtest_momentum_strategy(data, lookback_period, holding_period,
\* initial_capital, commission_rate).  holding_period is accepted and never
\* read.  With no 'Close' column line 51 raises KeyError before anything is
\* written, and the except branch returns {}.
backtest_momentum_strategy(data, lookback_period, holding_period, initial_capital, commission_rate) ==
    IF "Close" \notin DOMAIN data THEN [frame |-> data, result |-> EmptyDict]
    ELSE
    LET returns == PctChange(data["Close"], 1)
        momentum == PctChange(data["Close"], lookback_period)
        signal == MomentumSignal(momentum)
        position == MomentumPosition(data["Close"], lookback_period)
    IN  Simulate(Assign(data, [Returns |-> returns, Momentum |-> momentum,
                               Signal |-> signal, Position |-> position]),
                 position, returns, initial_capital, commission_rate)

\* Series.rolling(window).mean() and the square of Series.rolling(window).std():
\* over the `window` rows ending at row t, NaN while fewer rows exist.
Window(s, t, window) == [i \in 1..window |-> s[t - window + i]]

RollingMean(s, window) ==
    [t \in DOMAIN s |-> IF t >= window THEN Mean(Window(s, t, window)) ELSE NaN]

RollingVar(s, window) ==
    [t \in DOMAIN s |-> IF t >= window THEN Var(Window(s, t, window)) ELSE NaN]

\* data['MA'] +/- data['STD'] * std_devs.  With STD a square root, a band is
\* kept as <<MA, (STD * std_devs)^2, side>>, side 1 for the upper and -1 for
\* the lower band; it is NaN (first component) where MA or STD is.
Band(ma, variance, std_devs, side) ==
    [t \in DOMAIN ma |->
        IF IsNaN(ma[t]) \/ IsNaN(variance[t])
        THEN <<NaN, NaN, side>>
        ELSE <<ma[t], RMul(RMul(std_devs, std_devs), variance[t]), side>>]

\* close < MA - w and close > MA + w for w = STD * std_devs >= 0, decided on
\* the squares; False where the band is NaN.
BelowBand(close, band) ==
    /\ ~IsNaN(band[1])
    /\ RLess(close, band[1])
    /\ RGreater(RMul(RSub(band[1], close), RSub(band[1], close)), band[2])

AboveBand(close, band) ==
    /\ ~IsNaN(band[1])
    /\ RGreater(close, band[1])
    /\ RGreater(RMul(RSub(close, band[1]), RSub(close, band[1])), band[2])

\* np.where(Close < Lower_Band, 1, np.where(Close > Upper_Band, -1, 0))
MeanReversionSignal(close, lower, upper) ==
    [t \in DOMAIN close |->
        IF BelowBand(close[t], lower[t]) THEN R(1)
        ELSE IF AboveBand(close[t], upper[t]) THEN R(-1)
        ELSE R(0)]

\* Lines 128-140: the position the mean-reversion backtest holds at each bar.
MeanReversionPosition(close, lookback_period, std_devs) ==
    LET ma == RollingMean(close, lookback_period)
        variance == RollingVar(close, lookback_period)
    IN  PositionOf(MeanReversionSignal(close, Band(ma, variance, std_devs, -1),
                                       Band(ma, variance, std_devs, 1)))

\* StrategyAgent.backtest_mean_reversion_strategy(data, lookback_period,
\* std_devs, initial_capital, commission_rate); the 'STD' column holds the
\* square of the code's value.
backtest_mean_reversion_strategy(data, lookback_period, std_devs, initial_capital, commission_rate) ==
    IF "Close" \notin DOMAIN data THEN [frame |-> data, result |-> EmptyDict]
    ELSE
    LET ma == RollingMean(data["Close"], lookback_period)
        variance == RollingVar(data["Close"], lookback_period)
        upper == Band(ma, variance, std_devs, 1)
        lower == Band(ma, variance, std_devs, -1)
        signal == MeanReversionSignal(data["Close"], lower, upper)
        position == MeanReversionPosition(data["Close"], lookback_period, std_devs)
        returns == PctChange(data["Close"], 1)
    IN  Simulate(Assign(data, [MA |-> ma, STD |-> variance, Upper_Band |-> upper,
                               Lower_Band |-> lower, Signal |-> signal,
                               Position |-> position, Returns |-> returns]),
                 position, returns, initial_capital, commission_rate)

-----------------------------------------------------------------------------
(* The backtests called on a caller's frame *)

\* All price series of 0..MaxBars bars with closes in Prices.
Closes == UNION {[1..n -> {R(p) : p \in Prices}] : n \in 0..MaxBars}

LookbackPeriods == 1..3

HoldingPeriods == {1, 5}

\* std_devs values 0.5 and 1.0: a close lies at most (w - 1) / sqrt(w) standard
\* deviations from the mean of a window of w bars that it ends, which is
\* below the default 2.0 for every window of fewer than six bars.
StdDevs == {Rat(1, 2), R(1)}

InitBacktest ==
    /\ pc = "idle"
    /\ call = [op |-> "none"]
    /\ frame \in {PriceFrame(c) : c \in Closes} \cup {NoCloseFrame(2)}
    /\ result = EmptyDict

BacktestMomentum ==
    /\ pc = "idle"
    /\ \E lookback \in LookbackPeriods, holding \in HoldingPeriods,
          rate \in CommissionRates :
         LET out == backtest_momentum_strategy(frame, lookback, holding,
                                               InitialCapital, rate)
         IN  /\ call' = [op |-> "momentum", data |-> frame,
                         lookback_period |-> lookback, holding_period |-> holding,
                         commission_rate |-> rate]
             /\ frame' = out.frame
             /\ result' = out.result
    /\ pc' = "done"

BacktestMeanReversion ==
    /\ pc = "idle"
    /\ \E lookback \in LookbackPeriods, k \in StdDevs, rate \in CommissionRates :
         LET out == backtest_mean_reversion_strategy(frame, lookback, k,
                                                     InitialCapital, rate)
         IN  /\ call' = [op |-> "mean_reversion", data |-> frame,
                         lookback_period |-> lookback, std_devs |-> k,
                         commission_rate |-> rate]
             /\ frame' = out.frame
             /\ result' = out.result
    /\ pc' = "done"

NextBacktest == BacktestMomentum \/ BacktestMeanReversion

SpecBacktest == InitBacktest /\ [][NextBacktest]_vars

-----------------------------------------------------------------------------
(* Claims about the backtests *)

\* The Position column that the call recorded in `call` computes for a series.
PositionFor(close) ==
    IF call.op = "momentum"
    THEN MomentumPosition(close, call.lookback_period)
    ELSE MeanReversionPosition(close, call.lookback_period, call.std_devs)

\* The number of leading bars on which two series agree.
RECURSIVE CommonPrefix(_, _)
CommonPrefix(s1, s2) ==
    IF s1 = <<>> \/ s2 = <<>> \/ Head(s1) # Head(s2) THEN 0
    ELSE 1 + CommonPrefix(Tail(s1), Tail(s2))

Backtested == pc = "done" /\ "Close" \in DOMAIN call.data

\* C1: no look-ahead.  After either backtest of a series, every series that
\* agrees with it on the bars up to and including k (and differs, or ends, or
\* goes on, after k) gets the same Position at every bar j <= k.
C1_NoLookAhead ==
    Backtested =>
        \A other \in Closes :
            LET k == CommonPrefix(call.data["Close"], other)
                position == PositionFor(other)
            IN  \A j \in 1..k : position[j] = frame["Position"][j]

\* A backtest of a series of at least three bars took a position (long or
\* short) at a bar before the last one, so that a later close exists to change.
C1_Witness ==
    /\ Backtested
    /\ Len(frame["Close"]) >= 3
    /\ \E j \in 2..(Len(frame["Close"]) - 1) : frame["Position"][j] = R(1)
    /\ \E j \in 2..(Len(frame["Close"]) - 1) : frame["Position"][j] = R(-1)

\* C9 as claimed: a backtest leaves the caller's frame as it was passed in.
\* The code writes its working columns into the caller's frame (lines 51-79
\* and 128-162), so this fails.
C9_CallerFrameUnchanged == pc = "done" /\ call.op \in {"momentum", "mean_reversion"} => frame = call.data

\* Some bar's equity is lower than the equity of the bar before it.
EquityDecreases ==
    \E t \in 1..(Len(result.equity_curve) - 1) :
        RLess(result.equity_curve[t + 1], result.equity_curve[t])

\* C12 as claimed, for backtests that report a max_drawdown that is a number:
\* max_drawdown is <= 0, and it is 0 only when the equity never decreases
\* from one bar to the next.  An equity below zero makes the running peak
\* negative, and a further fall then divides to a positive drawdown that the
\* minimum ignores, so this fails.
C12_MaxDrawdown ==
    Backtested /\ ~result.empty =>
        \/ IsNaN(result.max_drawdown)
        \/ /\ RLeq(result.max_drawdown, R(0))
           /\ result.max_drawdown = R(0) => ~EquityDecreases

ConstantClose ==
    /\ Len(call.data["Close"]) >= 1
    /\ \A t \in DOMAIN call.data["Close"] : call.data["Close"][t] = call.data["Close"][1]

\* C13 as claimed: a backtest of a series whose close is constant reports a
\* volatility of exactly 0 and a Sharpe ratio of exactly 0.  With fewer than
\* four bars fewer than two net returns exist, their standard deviation is
\* NaN, and the guard 'volatility != 0' lets the NaN through, so this fails.
C13_ConstantSeriesZeroSharpe ==
    Backtested /\ ConstantClose =>
        /\ ~result.empty
        /\ result.volatility_sq = R(0)
        /\ result.sharpe_ratio = R(0)

\* From four bars on, a constant series has volatility 0 and Sharpe ratio 0 in
\* both backtests.
ConstantSeriesOfFourBars ==
    Backtested /\ ConstantClose /\ Len(call.data["Close"]) >= 4 =>
        /\ ~result.empty
        /\ result.volatility_sq = R(0)
        /\ result.sharpe_ratio = R(0)

\* C19: in both backtests the position at the first bar is undefined, the
\* position at every later bar is the signal of the bar before it, and the
\* strategy return of a bar is that position times the bar's market return,
\* close[t] / close[t-1] - 1.
C19_PositionLagsSignal ==
    Backtested =>
        \A t \in DOMAIN frame["Close"] :
            /\ t = 1 => IsNaN(frame["Position"][t])
            /\ t > 1 => frame["Position"][t] = frame["Signal"][t - 1]
            /\ frame["Strategy_Returns"][t]
                  = RMul(frame["Position"][t],
                         IF t = 1 THEN NaN
                         ELSE RSub(RDiv(frame["Close"][t], frame["Close"][t - 1]), R(1)))

\* A backtest where the signal changes from one bar to the next, the later
\* bar holds the position of the earlier signal, and the market moved.
C19_Witness ==
    /\ Backtested
    /\ \E t \in 2..Len(frame["Close"]) :
         /\ frame["Signal"][t] # frame["Signal"][t - 1]
         /\ frame["Position"][t] = frame["Signal"][t - 1]
         /\ frame["Position"][t] = R(1)
         /\ RLess(frame["Strategy_Returns"][t], R(0))

\* C20 as claimed: in the momentum backtest a bar with fewer than
\* lookback_period bars before it carries no signal, so the bar after it
\* holds no position (neither long nor short), and total_trades counts only
\* changes between positions that come from later bars.  np.where(Momentum >
\* 0, 1, -1) gives such a bar the signal -1 (NaN > 0 is false), the next bar
\* is held short, and leaving that short is counted as a trade, so this fails.
C20_LeadingBarsCarryNoSignal ==
    pc = "done" /\ call.op = "momentum" /\ "Close" \in DOMAIN call.data =>
        LET n == Len(frame["Close"])
            real == (call.lookback_period + 2)..n
        IN  /\ \A t \in 1..(n - 1) :
                 t <= call.lookback_period =>
                     frame["Position"][t + 1] \in {NaN, R(0)}
            /\ ~result.empty =>
                 result.total_trades
                    = Cardinality({t \in real : t - 1 \in real
                                      /\ frame["Position"][t] # frame["Position"][t - 1]})

\* The bars on which a trade occurred: the position is not the position of
\* the bar before.
TradeBars ==
    {t \in 2..Len(frame["Position"]) :
        ~IsNaN(frame["Position"][t]) /\ ~IsNaN(frame["Position"][t - 1])
        /\ frame["Position"][t] # frame["Position"][t - 1]}

\* The bars with a positive net strategy return.
WinningBars ==
    {t \in DOMAIN frame["Strategy_Returns_Net"] :
        RGreater(frame["Strategy_Returns_Net"][t], R(0))}

\* C21 as claimed: win_rate is the share of the bars with a trade whose net
\* strategy return is positive, 0 when no bar has a trade, and so it lies in
\* [0, 1].  The code divides the number of all bars with a positive net return
\* (line 83 / 166) by the number of bars with a trade, so a position held
\* over several winning bars gives a win_rate above 1 and this fails.
C21_WinRateIsFractionOfTrades ==
    Backtested /\ ~result.empty =>
        /\ result.win_rate
              = IF TradeBars = {} THEN R(0)
                ELSE Rat(Cardinality(TradeBars \cap WinningBars), Cardinality(TradeBars))
        /\ RLeq(R(0), result.win_rate)
        /\ RLeq(result.win_rate, R(1))

\* With no trade the win rate is 0, and it is never negative.
WinRateZeroWithoutTrade ==
    Backtested /\ ~result.empty =>
        /\ RLeq(R(0), result.win_rate)
        /\ result.total_trades = 0 => result.win_rate = R(0)

\* The position held at bar t as an exposure: none (NaN, the first bar) is 0.
Exposure(t) == IF IsNaN(frame["Position"][t]) THEN R(0) ELSE frame["Position"][t]

\* |position change| at bar t >= 2.
PositionChange(t) == RAbs(RSub(Exposure(t), Exposure(t - 1)))

\* The trade, the commission and the net return of bar t are those of a
\* position change of `change`.
ChargedAt(t, change) ==
    /\ RGreater(frame["Trades"][t], R(0)) <=> change # R(0)
    /\ frame["Commission"][t] = RMul(change, call.commission_rate)
    /\ frame["Strategy_Returns_Net"][t]
          = RSub(frame["Strategy_Returns"][t], frame["Commission"][t])

\* C22 as claimed: at every bar after the first, a trade is counted exactly
\* when the position is not that of the bar before, the commission is
\* |position change| * commission_rate, the net return is the strategy return
\* less that commission, and total_trades is the number of such bars.  The
\* first bar holds no position, so Position.diff() is NaN on the second bar:
\* the short position that the momentum backtest enters there is not counted
\* as a trade, its commission and net return are NaN, and this fails.
C22_TradesAndCommission ==
    Backtested =>
        /\ \A t \in 2..Len(frame["Position"]) : ChargedAt(t, PositionChange(t))
        /\ ~result.empty =>
              result.total_trades
                 = Cardinality({t \in 2..Len(frame["Position"]) : PositionChange(t) # R(0)})

\* From the third bar on, where the bar before holds a position, a trade is
\* counted exactly on a change of position, a flip between -1 and +1 is one
\* trade charged twice the rate, and the equity is the equity of the bar
\* before (the initial capital at the third bar) times 1 + net return.
TradesChargedFromThirdBar ==
    Backtested =>
        /\ \A t \in 3..Len(frame["Position"]) :
              /\ ChargedAt(t, PositionChange(t))
              /\ frame["Equity"][t]
                    = RMul(IF t = 3 THEN InitialCapital ELSE frame["Equity"][t - 1],
                           RAdd(R(1), frame["Strategy_Returns_Net"][t]))
        /\ ~result.empty =>
              result.total_trades
                 = Cardinality({t \in 3..Len(frame["Position"]) : PositionChange(t) # R(0)})

-----------------------------------------------------------------------------
(* PlayAgent: the recommendation rule, the ranking and the position sizes *)

\* settings.RISK_PER_TRADE, 0.02 unless the environment overrides it.
RISK_PER_TRADE == Rat(2, 100)

RiskTolerances == {"low", "medium", "high"}

TimeHorizons == {"short", "medium", "long"}

\* A decision rule with strict thresholds: BUY above 1, SELL below -1.
DetermineRecommendationStrict(momentum_signal, mean_reversion_signal, volatility, beta, risk_tolerance, time_horizon) ==
    LET combined == momentum_signal + mean_reversion_signal
        after_risk ==
            IF risk_tolerance = "low" /\ RGreater(volatility, Rat(3, 10)) THEN 0
            ELSE IF risk_tolerance = "high" /\ RLess(volatility, Rat(1, 10)) THEN 0
            ELSE combined
        after_horizon ==
            IF time_horizon = "short" /\ RLess(beta, Rat(8, 10)) THEN 0
            ELSE IF time_horizon = "long" /\ RGreater(beta, Rat(12, 10)) THEN 0
            ELSE after_risk
    IN  IF after_horizon > 1 THEN "BUY"
        ELSE IF after_horizon < -1 THEN "SELL"
        ELSE "HOLD"

\* A decision rule without the risk-tolerance gate.
DetermineRecommendationUngated(momentum_signal, mean_reversion_signal, volatility, beta, risk_tolerance, time_horizon) ==
    LET combined == momentum_signal + mean_reversion_signal
        after_horizon ==
            IF time_horizon = "short" /\ RLess(beta, Rat(8, 10)) THEN 0
            ELSE IF time_horizon = "long" /\ RGreater(beta, Rat(12, 10)) THEN 0
            ELSE combined
    IN  IF after_horizon >= 1 THEN "BUY"
        ELSE IF after_horizon <= -1 THEN "SELL"
        ELSE "HOLD"

\* A decision rule whose horizon gate tests the beta against 1.0 on both
\* sides and, where it does not veto, passes the ungated sum on.
DetermineRecommendationHorizonAtOne(momentum_signal, mean_reversion_signal, volatility, beta, risk_tolerance, time_horizon) ==
    LET combined == momentum_signal + mean_reversion_signal
        after_horizon ==
            IF time_horizon = "short" /\ RLess(beta, R(1)) THEN 0
            ELSE IF time_horizon = "long" /\ RGreater(beta, R(1)) THEN 0
            ELSE combined
    IN  IF after_horizon >= 1 THEN "BUY"
        ELSE IF after_horizon <= -1 THEN "SELL"
        ELSE "HOLD"

\* PlayAgent._determine_recommendation: the 'action' of the dict it returns.
_determine_recommendation(momentum_signal, mean_reversion_signal, volatility, beta, risk_tolerance, time_horizon) ==
    LET combined == momentum_signal + mean_reversion_signal
        after_risk ==
            IF risk_tolerance = "low" /\ RGreater(volatility, Rat(3, 10)) THEN 0
            ELSE IF risk_tolerance = "high" /\ RLess(volatility, Rat(1, 10)) THEN 0
            ELSE combined
        after_horizon ==
            IF time_horizon = "short" /\ RLess(beta, Rat(8, 10)) THEN 0
            ELSE IF time_horizon = "long" /\ RGreater(beta, Rat(12, 10)) THEN 0
            ELSE after_risk
    IN  IF after_horizon >= 1 THEN "BUY"
        ELSE IF after_horizon <= -1 THEN "SELL"
        ELSE "HOLD"

\* A position size without the cap at 1.0.
CalculatePositionSizeUncapped(volatility, risk_tolerance, risk_per_trade) ==
    LET adjusted_risk ==
            IF risk_tolerance = "low" THEN RMul(risk_per_trade, Rat(1, 2))
            ELSE IF risk_tolerance = "high" THEN RMul(risk_per_trade, Rat(3, 2))
            ELSE risk_per_trade
    IN  RDiv(adjusted_risk, volatility)

\* PlayAgent._calculate_position_size.  volatility is a numpy float64, so a
\* zero volatility divides to inf (or to NaN for 0/0) without raising.
_calculate_position_size(volatility, risk_tolerance, risk_per_trade) ==
    LET adjusted_risk ==
            IF risk_tolerance = "low" THEN RMul(risk_per_trade, Rat(1, 2))
            ELSE IF risk_tolerance = "high" THEN RMul(risk_per_trade, Rat(3, 2))
            ELSE risk_per_trade
        position_size == RDiv(adjusted_risk, volatility)
    IN  PyMin(position_size, R(1))

\* A sort key that ignores the risk tolerance: volatility descending for all.
SortKeyAnyTolerance(rec, risk_tolerance) ==
    <<IF rec.action = "BUY" THEN 1 ELSE 0, rec.volatility>>

\* The sort key of line 115-118 and the order of two keys as Python compares
\* tuples: by the first component, then by the second.
SortKey(rec, risk_tolerance) ==
    <<IF rec.action = "BUY" THEN 1 ELSE 0,
      IF risk_tolerance = "low" THEN RNeg(rec.volatility) ELSE rec.volatility>>

KeyLess(k1, k2) == k1[1] < k2[1] \/ (k1[1] = k2[1] /\ RLess(k1[2], k2[2]))

\* sorted(recommendations, key=..., reverse=True): descending by key and
\* stable, so entries with equal keys keep the order they were appended in.
RECURSIVE InsertDesc(_, _, _)
InsertDesc(rec, sorted, risk_tolerance) ==
    IF sorted = <<>> THEN <<rec>>
    ELSE IF KeyLess(SortKey(Head(sorted), risk_tolerance), SortKey(rec, risk_tolerance))
         THEN <<rec>> \o sorted
         ELSE <<Head(sorted)>> \o InsertDesc(rec, Tail(sorted), risk_tolerance)

RECURSIVE SortedDesc(_, _)
SortedDesc(recs, risk_tolerance) ==
    IF recs = <<>> THEN <<>>
    ELSE InsertDesc(recs[Len(recs)],
                    SortedDesc(SubSeq(recs, 1, Len(recs) - 1), risk_tolerance),
                    risk_tolerance)

\* A Python slice seq[:stop]; a negative stop counts from the end.
SliceTo(seq, stop) ==
    IF stop >= 0 THEN SubSeq(seq, 1, IF stop < Len(seq) THEN stop ELSE Len(seq))
    ELSE SubSeq(seq, 1, Len(seq) + stop)

\* What lines 73-87 compute from one symbol's frame.  A symbol of the universe
\* is a record [ticker, columns, rows, momentum_signal, mean_reversion_signal,
\* volatility, beta]: the columns and the number of rows of its frame, and the
\* signals, volatility and beta its prices give.
AnalysisColumns == {"Returns", "MA20", "MA50", "RSI"}

\* Lines 99-110: the recommendation appended for a symbol, HOLD ones left out.
RECURSIVE Candidates(_, _, _)
Candidates(universe, risk_tolerance, time_horizon) ==
    IF universe = <<>> THEN <<>>
    ELSE LET sym == universe[Len(universe)]
             action == _determine_recommendation(sym.momentum_signal,
                           sym.mean_reversion_signal, sym.volatility, sym.beta,
                           risk_tolerance, time_horizon)
             before == Candidates(SubSeq(universe, 1, Len(universe) - 1),
                                  risk_tolerance, time_horizon)
         IN  IF action # "HOLD"
             THEN Append(before, [ticker |-> sym.ticker, action |-> action,
                                  volatility |-> sym.volatility, beta |-> sym.beta,
                                  momentum_signal |-> sym.momentum_signal,
                                  mean_reversion_signal |-> sym.mean_reversion_signal])
             ELSE before

\* Lines 112-128: sort, truncate, then size each recommendation that is left.
Ranked(candidates, risk_tolerance, max_positions) ==
    LET kept == SliceTo(SortedDesc(candidates, risk_tolerance), max_positions)
    IN  [i \in 1..Len(kept) |->
            [ticker |-> kept[i].ticker, action |-> kept[i].action,
             volatility |-> kept[i].volatility, beta |-> kept[i].beta,
             momentum_signal |-> kept[i].momentum_signal,
             mean_reversion_signal |-> kept[i].mean_reversion_signal,
             position_size |-> _calculate_position_size(kept[i].volatility,
                                   risk_tolerance, RISK_PER_TRADE)]]

\* The first symbol, in dict order, whose processing raises in the loop of
\* lines 68-110: a frame with no rows makes .iloc[-1] (line 155) raise
\* IndexError.  0 when no symbol raises.
FirstRaising(universe) ==
    IF \E i \in DOMAIN universe : universe[i].rows = 0
    THEN CHOOSE i \in DOMAIN universe :
            /\ universe[i].rows = 0
            /\ \A j \in 1..(i - 1) : universe[j].rows # 0
    ELSE 0

\* PlayAgent.generate_trade_recommendations(universe_data, risk_tolerance,
\* time_horizon, max_positions): the frames as the call leaves them and the
\* dict it returns.  The whole body is one try block (lines 53-143):
\*   - a frame with no 'Close' column raises KeyError at line 60, before any
\*     frame is written, and the call returns {};
\*   - a frame with no rows raises IndexError inside the loop, after lines
\*     73-76 wrote the indicator columns of every symbol up to and including
\*     that one, and the call returns {};
\*   - otherwise every frame has the indicator columns and the dict holds the
\*     ranked, sized recommendations.
\* 'portfolio_risk' and 'correlation_matrix' come from RiskAgent calls that
\* catch their own errors; the model leaves the two entries out.
generate_trade_recommendations(universe, risk_tolerance, time_horizon, max_positions) ==
    IF \E i \in DOMAIN universe : "Close" \notin universe[i].columns
    THEN [frame |-> [i \in DOMAIN universe |-> universe[i].columns],
          result |-> EmptyDict]
    ELSE IF FirstRaising(universe) # 0
    THEN [frame |-> [i \in DOMAIN universe |->
                        IF i <= FirstRaising(universe)
                        THEN universe[i].columns \cup AnalysisColumns
                        ELSE universe[i].columns],
          result |-> EmptyDict]
    ELSE [frame |-> [i \in DOMAIN universe |-> universe[i].columns \cup AnalysisColumns],
          result |-> [empty |-> FALSE,
                      risk_tolerance |-> risk_tolerance,
                      time_horizon |-> time_horizon,
                      recommendations |->
                          Ranked(Candidates(universe, risk_tolerance, time_horizon),
                                 risk_tolerance, max_positions)]]

-----------------------------------------------------------------------------
(* The recommendation engine called on a universe *)

\* The largest universe, and the largest max_positions, of a call.
MaxSymbols == 3

MaxPositions == 2

Tickers == <<"AAPL", "MSFT", "GOOGL", "AMZN", "META">>

Signals == {-1, 0, 1}

Volatilities == {R(0), Rat(1, 20), Rat(1, 10), Rat(1, 5), Rat(3, 10), Rat(2, 5)}

Betas == {Rat(1, 2), Rat(8, 10), R(1), Rat(12, 10), Rat(3, 2)}

\* The symbols of a universe.  A frame that can be analysed gives a BUY
\* (momentum up), a SELL (RSI above 70) or a HOLD; its volatility is 0.2 or 0.4,
\* also 0.1 for a BUY and exactly 0 for a SELL, so that two volatilities pass
\* the gate of each tolerance: closes that grow by a constant factor have
\* std(Returns) = 0 and, with 15 to 49 bars, RSI 100 and no MA50.  The other
\* two frames make the call raise.
SymbolFrames ==
    {[columns |-> {"Close", "Volume"}, has_rows |-> TRUE,
      momentum_signal |-> sg[1], mean_reversion_signal |-> sg[2],
      volatility |-> v, beta |-> R(1)] :
        sg \in {<<1, 0>>, <<0, -1>>}, v \in {Rat(1, 5), Rat(2, 5)}}
    \cup {[columns |-> {"Close", "Volume"}, has_rows |-> TRUE,
           momentum_signal |-> 1, mean_reversion_signal |-> 0,
           volatility |-> Rat(1, 10), beta |-> R(1)],
          [columns |-> {"Close", "Volume"}, has_rows |-> TRUE,
           momentum_signal |-> 0, mean_reversion_signal |-> -1,
           volatility |-> R(0), beta |-> R(1)],
          [columns |-> {"Close", "Volume"}, has_rows |-> TRUE,
           momentum_signal |-> 0, mean_reversion_signal |-> 0,
           volatility |-> Rat(1, 5), beta |-> R(1)],
          [columns |-> {"Volume"}, has_rows |-> TRUE,
           momentum_signal |-> 0, mean_reversion_signal |-> 0,
           volatility |-> NaN, beta |-> NaN],
          [columns |-> {"Close", "Volume"}, has_rows |-> FALSE,
           momentum_signal |-> 0, mean_reversion_signal |-> 0,
           volatility |-> NaN, beta |-> NaN]}

Universes == UNION {[1..n -> SymbolFrames] : n \in 0..MaxSymbols}

InitPlay ==
    /\ pc = "idle"
    /\ call = [op |-> "none"]
    /\ frame = <<>>
    /\ result = EmptyDict

DetermineRecommendation ==
    /\ pc = "idle"
    /\ \E m \in Signals, r \in Signals, v \in Volatilities, b \in Betas,
          tol \in RiskTolerances, hor \in TimeHorizons :
         /\ call' = [op |-> "determine", momentum_signal |-> m,
                     mean_reversion_signal |-> r, volatility |-> v, beta |-> b,
                     risk_tolerance |-> tol, time_horizon |-> hor]
         /\ result' = [empty |-> FALSE,
                       action |-> _determine_recommendation(m, r, v, b, tol, hor)]
    /\ pc' = "done"
    /\ UNCHANGED frame

CalculatePositionSize ==
    /\ pc = "idle"
    /\ \E v \in Volatilities \cup {Rat(1, 100), Rat(1, 50)}, tol \in RiskTolerances :
         /\ call' = [op |-> "position_size", volatility |-> v, risk_tolerance |-> tol]
         /\ result' = [empty |-> FALSE, raised |-> FALSE,
                       position_size |-> _calculate_position_size(v, tol, RISK_PER_TRADE)]
    /\ pc' = "done"
    /\ UNCHANGED frame

GenerateTradeRecommendations ==
    /\ pc = "idle"
    /\ \E u \in Universes, tol \in RiskTolerances, max_positions \in -1..MaxPositions :
         LET universe == [i \in DOMAIN u |->
                             [ticker |-> Tickers[i], columns |-> u[i].columns,
                              rows |-> IF u[i].has_rows THEN 1 ELSE 0,
                              momentum_signal |-> u[i].momentum_signal,
                              mean_reversion_signal |-> u[i].mean_reversion_signal,
                              volatility |-> u[i].volatility, beta |-> u[i].beta]]
             out == generate_trade_recommendations(universe, tol, "medium", max_positions)
         IN  /\ call' = [op |-> "recommend", universe |-> universe,
                         risk_tolerance |-> tol, time_horizon |-> "medium",
                         max_positions |-> max_positions]
             /\ frame' = out.frame
             /\ result' = out.result
    /\ pc' = "done"

NextPlay == DetermineRecommendation \/ CalculatePositionSize \/ GenerateTradeRecommendations

SpecPlay == InitPlay /\ [][NextPlay]_vars

-----------------------------------------------------------------------------
(* Claims about the recommendation engine *)

Recommended == pc = "done" /\ call.op = "recommend" /\ ~result.empty

\* The combined signal after the risk-tolerance gate and the time-horizon gate.
GatedSignal(m, r, v, b, tol, hor) ==
    IF \/ tol = "low" /\ RGreater(v, Rat(3, 10))
       \/ tol = "high" /\ RLess(v, Rat(1, 10))
       \/ hor = "short" /\ RLess(b, Rat(8, 10))
       \/ hor = "long" /\ RGreater(b, Rat(12, 10))
    THEN 0
    ELSE m + r

ActionOf(signal) == IF signal >= 1 THEN "BUY" ELSE IF signal <= -1 THEN "SELL" ELSE "HOLD"

\* C2: _determine_recommendation returns BUY exactly when the gated combined
\* signal is >= 1, SELL exactly when it is <= -1 and HOLD otherwise; and the
\* recommendations of a run hold no HOLD: each is a symbol of the universe
\* with the BUY or SELL its gated signal gives.
C2_DecisionRule ==
    /\ pc = "done" /\ call.op = "determine" =>
           result.action = ActionOf(GatedSignal(call.momentum_signal,
                               call.mean_reversion_signal, call.volatility, call.beta,
                               call.risk_tolerance, call.time_horizon))
    /\ Recommended =>
           \A i \in DOMAIN result.recommendations :
               LET rec == result.recommendations[i]
               IN  /\ rec.action \in {"BUY", "SELL"}
                   /\ \E j \in DOMAIN call.universe :
                          LET sym == call.universe[j]
                          IN  /\ sym.ticker = rec.ticker
                              /\ rec.action = ActionOf(GatedSignal(sym.momentum_signal,
                                     sym.mean_reversion_signal, sym.volatility, sym.beta,
                                     call.risk_tolerance, call.time_horizon))

\* A 'low' tolerance run listed a recommendation and left out both a symbol
\* with no signal and a symbol whose BUY signal the volatility gate vetoed.
C2_Witness ==
    /\ Recommended
    /\ call.risk_tolerance = "low"
    /\ Len(result.recommendations) >= 1
    /\ \E j, k \in DOMAIN call.universe :
           /\ call.universe[j].momentum_signal = 1
           /\ call.universe[j].volatility = Rat(2, 5)
           /\ call.universe[k].momentum_signal = 0
           /\ call.universe[k].mean_reversion_signal = 0
           /\ "Close" \in call.universe[k].columns
           /\ \A i \in DOMAIN result.recommendations :
                  result.recommendations[i].ticker \notin
                      {call.universe[j].ticker, call.universe[k].ticker}

\* The non-HOLD symbols of the universe of the call, as a set of indices.
NonHold ==
    {j \in DOMAIN call.universe :
        ActionOf(GatedSignal(call.universe[j].momentum_signal,
            call.universe[j].mean_reversion_signal, call.universe[j].volatility,
            call.universe[j].beta, call.risk_tolerance, call.time_horizon)) # "HOLD"}

\* a is ranked strictly before b: BUY before SELL, then by volatility,
\* ascending for 'low' tolerance and descending otherwise.
RankedBefore(a, b) ==
    \/ a.action = "BUY" /\ b.action = "SELL"
    \/ /\ a.action = b.action
       /\ IF call.risk_tolerance = "low"
          THEN RLess(a.volatility, b.volatility)
          ELSE RGreater(a.volatility, b.volatility)

SymbolAction(j) ==
    [action |-> ActionOf(GatedSignal(call.universe[j].momentum_signal,
                    call.universe[j].mean_reversion_signal, call.universe[j].volatility,
                    call.universe[j].beta, call.risk_tolerance, call.time_horizon)),
     volatility |-> call.universe[j].volatility]

\* C3: the recommendations are the first min(n, max_positions) of the n
\* non-HOLD symbols in ranking order (with a negative max_positions, Python's
\* slice keeps the first n + max_positions): they are distinct non-HOLD
\* symbols, none is ranked strictly before one listed ahead of it, no symbol
\* left out is ranked strictly before a listed one, and for max_positions >= 0
\* there are at most max_positions of them.
C3_RankedAndTruncated ==
    Recommended =>
        LET recs == result.recommendations
            n == Cardinality(NonHold)
            listed == {j \in NonHold : \E i \in DOMAIN recs : recs[i].ticker = Tickers[j]}
        IN  /\ Len(recs) = IF call.max_positions >= 0
                           THEN (IF n < call.max_positions THEN n ELSE call.max_positions)
                           ELSE (IF n + call.max_positions > 0
                                 THEN n + call.max_positions ELSE 0)
            /\ call.max_positions >= 0 => Len(recs) <= call.max_positions
            /\ Cardinality(listed) = Len(recs)
            /\ \A i \in DOMAIN recs :
                   \E j \in listed :
                       /\ recs[i].ticker = Tickers[j]
                       /\ recs[i].action = SymbolAction(j).action
                       /\ recs[i].volatility = SymbolAction(j).volatility
            /\ \A i, k \in DOMAIN recs : i < k => ~RankedBefore(recs[k], recs[i])
            /\ \A j \in NonHold \ listed :
                   \A i \in DOMAIN recs : ~RankedBefore(SymbolAction(j), recs[i])

\* A 'low' tolerance run ranked three non-HOLD symbols, listed two BUYs of
\* unequal volatility and cut a SELL off.
C3_Witness ==
    /\ Recommended
    /\ call.max_positions = 2
    /\ Cardinality(NonHold) = 3
    /\ call.risk_tolerance = "low"
    /\ result.recommendations[1].action = "BUY"
    /\ result.recommendations[2].action = "BUY"
    /\ result.recommendations[1].volatility # result.recommendations[2].volatility
    /\ \E j \in NonHold : SymbolAction(j).action = "SELL"

\* min(adjusted_risk / volatility, 1.0) with adjusted_risk = risk_per_trade
\* times 0.5, 1.0 or 1.5, in IEEE arithmetic.
ExpectedSize(volatility, risk_tolerance) ==
    LET factor == IF risk_tolerance = "low" THEN Rat(1, 2)
                  ELSE IF risk_tolerance = "medium" THEN R(1)
                  ELSE Rat(3, 2)
        quotient == RDiv(RMul(RISK_PER_TRADE, factor), volatility)
    IN  IF RLess(quotient, R(1)) THEN quotient ELSE R(1)

SizedAsExpected(volatility, risk_tolerance, position_size) ==
    /\ position_size = ExpectedSize(volatility, risk_tolerance)
    /\ RGreater(volatility, R(0)) =>
           RGreater(position_size, R(0)) /\ RLeq(position_size, R(1))

\* C4: every emitted recommendation, and every position size asked for, is
\* min(adjusted_risk / volatility, 1.0) with adjusted_risk = risk_per_trade
\* times 0.5 for 'low', 1.0 for 'medium' and 1.5 for 'high'; for a volatility
\* > 0 it lies in (0, 1].
C4_PositionSize ==
    /\ pc = "done" /\ call.op = "position_size" =>
           SizedAsExpected(call.volatility, call.risk_tolerance, result.position_size)
    /\ Recommended =>
           \A i \in DOMAIN result.recommendations :
               SizedAsExpected(result.recommendations[i].volatility, call.risk_tolerance,
                               result.recommendations[i].position_size)

\* A 'high' tolerance run emitted a recommendation for a symbol of volatility
\* 0.2 with the size 0.03 / 0.2, below the cap.
C4_Witness ==
    /\ Recommended
    /\ call.risk_tolerance = "high"
    /\ \E i \in DOMAIN result.recommendations :
           /\ result.recommendations[i].volatility = Rat(1, 5)
           /\ result.recommendations[i].position_size = Rat(3, 20)

\* C5 as claimed: asked for an asset of volatility 0, position sizing ends in
\* an error, and no run emits a recommendation of volatility 0 with a size.
\* The code divides by the zero (a numpy float, so no exception) and caps the
\* infinity at 1.0, so this fails.
C5_ZeroVolatilityIsError ==
    /\ pc = "done" /\ call.op = "position_size" /\ call.volatility = R(0) => result.raised
    /\ Recommended =>
           \A i \in DOMAIN result.recommendations :
               result.recommendations[i].volatility # R(0)

\* The symbols of the call's universe whose frame makes the processing raise.
FailingSymbols ==
    {j \in DOMAIN call.universe :
        "Close" \notin call.universe[j].columns \/ call.universe[j].rows = 0}

\* C8 as claimed: when one symbol's frame makes its processing fail and
\* another symbol gives a BUY or SELL, the run still returns a result, the
\* result lists recommendations, and it records the skipped symbol.  The
\* code's single try block returns {} for the whole run, so this fails.
C8_FailureIsolated ==
    /\ pc = "done"
    /\ call.op = "recommend"
    /\ call.max_positions >= 1
    /\ FailingSymbols # {}
    /\ NonHold \ FailingSymbols # {}
    => /\ ~result.empty
       /\ Len(result.recommendations) >= 1
       /\ "skipped" \in DOMAIN result
       /\ result.skipped = {Tickers[j] : j \in FailingSymbols}

\* C9 as claimed, for the recommendation run: the caller's frames keep the
\* columns they were passed in with.  Lines 73-76 write Returns, MA20, MA50
\* and RSI into each of them, so this fails.
C9_UniverseFramesUnchanged ==
    pc = "done" /\ call.op = "recommend" =>
        \A j \in DOMAIN call.universe : frame[j] = call.universe[j].columns

\* The risk-tolerance gate and the time-horizon gate of the decision rule.
RiskGate(volatility, risk_tolerance) ==
    \/ risk_tolerance = "low" /\ RGreater(volatility, Rat(3, 10))
    \/ risk_tolerance = "high" /\ RLess(volatility, Rat(1, 10))

HorizonGate(beta, time_horizon) ==
    \/ time_horizon = "short" /\ RLess(beta, Rat(8, 10))
    \/ time_horizon = "long" /\ RGreater(beta, Rat(12, 10))

Determined == pc = "done" /\ call.op = "determine"

\* C24: the action is HOLD whenever the tolerance is 'low' and the volatility
\* is above 0.30, or the tolerance is 'high' and the volatility below 0.10,
\* whatever the signals, the beta and the horizon, and no run lists such a
\* symbol; with 'medium' tolerance the action is that of the sum of the two
\* signals after the horizon gate alone, whatever the volatility.
C24_RiskToleranceGate ==
    /\ Determined /\ RiskGate(call.volatility, call.risk_tolerance) =>
           result.action = "HOLD"
    /\ Determined /\ call.risk_tolerance = "medium" =>
           result.action = ActionOf(IF HorizonGate(call.beta, call.time_horizon) THEN 0
                                    ELSE call.momentum_signal + call.mean_reversion_signal)
    /\ Recommended =>
           \A j \in DOMAIN call.universe :
               RiskGate(call.universe[j].volatility, call.risk_tolerance) =>
                   \A i \in DOMAIN result.recommendations :
                       result.recommendations[i].ticker # call.universe[j].ticker

\* A 'low' tolerance call with both signals at +1, a volatility of 0.4 and no
\* horizon veto returned HOLD.
C24_Witness ==
    /\ Determined
    /\ call.risk_tolerance = "low"
    /\ call.volatility = Rat(2, 5)
    /\ call.momentum_signal = 1
    /\ call.mean_reversion_signal = 1
    /\ ~HorizonGate(call.beta, call.time_horizon)
    /\ result.action = "HOLD"

\* C25: the action is HOLD whenever the horizon is 'short' and the beta is
\* below 0.8, or the horizon is 'long' and the beta above 1.2, whatever the
\* signals, the volatility and the tolerance; with 'medium' horizon the
\* action is that of the sum of the two signals after the risk-tolerance gate
\* alone, whatever the beta; and a signal that the risk-tolerance gate vetoed
\* stays vetoed under every horizon and beta.
C25_HorizonGate ==
    /\ Determined /\ HorizonGate(call.beta, call.time_horizon) =>
           result.action = "HOLD"
    /\ Determined /\ ~HorizonGate(call.beta, call.time_horizon) =>
           result.action = ActionOf(IF RiskGate(call.volatility, call.risk_tolerance) THEN 0
                                    ELSE call.momentum_signal + call.mean_reversion_signal)
    /\ Determined /\ RiskGate(call.volatility, call.risk_tolerance) =>
           result.action = "HOLD"

\* A 'long' horizon call with both signals at -1, a beta of 1.5 and no
\* risk-tolerance veto returned HOLD.
C25_Witness ==
    /\ Determined
    /\ call.time_horizon = "long"
    /\ call.beta = Rat(3, 2)
    /\ call.momentum_signal = -1
    /\ call.mean_reversion_signal = -1
    /\ ~RiskGate(call.volatility, call.risk_tolerance)
    /\ result.action = "HOLD"

-----------------------------------------------------------------------------
(* RiskAgent: value at risk and expected shortfall *)

\* np.sort: ascending.
RECURSIVE InsertAsc(_, _)
InsertAsc(x, sorted) ==
    IF sorted = <<>> THEN <<x>>
    ELSE IF RLess(x, Head(sorted)) THEN <<x>> \o sorted
    ELSE <<Head(sorted)>> \o InsertAsc(x, Tail(sorted))

RECURSIVE SortedAsc(_)
SortedAsc(s) == IF s = <<>> THEN <<>> ELSE InsertAsc(Head(s), SortedAsc(Tail(s)))

\* A percentile counted from the top of the sorted data: that of 100 - q.
PercentileFromTop(a, q) ==
    LET sorted == SortedAsc(a)
        h == RMul(R(Len(a) - 1), RDiv(RSub(R(100), q), R(100)))
        lo == h[1] \div h[2]
        fraction == RSub(h, R(lo))
    IN  IF lo + 1 >= Len(a) THEN sorted[Len(a)]
        ELSE RAdd(sorted[lo + 1], RMul(fraction, RSub(sorted[lo + 2], sorted[lo + 1])))

\* np.percentile(a, q) for 0 <= q <= 100, linear interpolation: the value at
\* the fractional 0-based index (n - 1) * q / 100 of the sorted data.
Percentile(a, q) ==
    LET sorted == SortedAsc(a)
        h == RMul(R(Len(a) - 1), RDiv(q, R(100)))
        lo == h[1] \div h[2]
        fraction == RSub(h, R(lo))
    IN  IF lo + 1 >= Len(a) THEN sorted[Len(a)]
        ELSE RAdd(sorted[lo + 1], RMul(fraction, RSub(sorted[lo + 2], sorted[lo + 1])))

\* scipy.stats.norm.ppf(p, mean, std) where a float holds it exactly: NaN for
\* p outside [0, 1] and for a scale that is NaN or not above 0, the
\* infinities at p = 0 and p = 1, and the mean at p = 1/2.
NormPpfExact(p, variance) ==
    \/ IsNaN(variance)
    \/ ~RGreater(variance, R(0))
    \/ ~RGreater(p, R(0))
    \/ ~RLess(p, R(1))
    \/ p = Rat(1, 2)

NormPpf(p, mean, variance) ==
    IF IsNaN(variance) \/ ~RGreater(variance, R(0)) THEN NaN
    ELSE IF RLess(p, R(0)) \/ RGreater(p, R(1)) THEN NaN
    ELSE IF p = R(0) THEN NegInf
    ELSE IF p = R(1) THEN PosInf
    ELSE mean

\* RiskAgent.calculate_var(returns, confidence_level, method): the float it
\* returns.  Every exception raised in the body is caught at line 60 and
\* turned into the return value 0.0: np.percentile's ValueError for a
\* percentile outside [0, 100], and the ValueError that line 56 raises itself
\* for an unknown method.
calculate_var(returns, confidence_level, method) ==
    LET q == RMul(RSub(R(1), confidence_level), R(100))
    IN  IF method = "historical"
        THEN IF RLess(q, R(0)) \/ RGreater(q, R(100)) THEN R(0)
             ELSE Percentile(returns, q)
        ELSE IF method = "parametric"
        THEN NormPpf(RSub(R(1), confidence_level), Mean(returns), Var(returns))
        ELSE R(0)

\* returns[returns <= var]
RECURSIVE AtOrBelow(_, _)
AtOrBelow(returns, threshold) ==
    IF returns = <<>> THEN <<>>
    ELSE IF RLeq(Head(returns), threshold)
         THEN <<Head(returns)>> \o AtOrBelow(Tail(returns), threshold)
         ELSE AtOrBelow(Tail(returns), threshold)

\* RiskAgent.calculate_expected_shortfall(returns, confidence_level): the
\* float it returns; the mean of an empty selection is NaN.
calculate_expected_shortfall(returns, confidence_level) ==
    LET var == calculate_var(returns, confidence_level, "historical")
    IN  Mean(AtOrBelow(returns, var))

-----------------------------------------------------------------------------
(* RiskAgent: portfolios of assets *)

\* The columns of a returns DataFrame, in column order.  The frame is a
\* function from these names to equally long series, and weights has one
\* entry per column.
Assets == <<"AAPL", "MSFT">>

NumRows(returns) == Len(returns[Assets[1]])

\* (returns * weights).sum(axis=1): the weighted sum of each row.
PortfolioReturns(returns, weights) ==
    [t \in 1..NumRows(returns) |->
        RSum([i \in DOMAIN Assets |-> RMul(returns[Assets[i]][t], weights[i])])]

\* Series.cov(other) (ddof = 1): NaN with fewer than two rows.
Cov(x, y) ==
    LET mx == Mean(x)
        my == Mean(y)
    IN  IF Len(x) < 2 THEN NaN
        ELSE RDiv(RSum([t \in DOMAIN x |-> RMul(RSub(x[t], mx), RSub(y[t], my))]),
                  R(Len(x) - 1))

\* [1.0 / len(returns.columns)] * len(returns.columns)
EqualWeights == [i \in DOMAIN Assets |-> Rat(1, Len(Assets))]

\* mean / std * sqrt(252) (line 127), with no guard for a zero std: the
\* quotient by zero is an infinity or NaN; elsewhere the value is 0 for a
\* mean of 0 and a nonzero float with the sign of the mean otherwise.
PortfolioSharpe(mean, variance) ==
    IF IsNaN(variance) \/ IsNaN(mean) THEN NaN
    ELSE IF variance = R(0) THEN RDiv(mean, R(0))
    ELSE IF mean = R(0) THEN R(0)
    ELSE Inexact(Sign(mean[1]))

\* Lines 117-120: the minimum of (cumulative - peak) / peak.
PeakDrawdown(portfolio_returns) ==
    LET cumulative == CumProd([t \in DOMAIN portfolio_returns |->
                                  RAdd(R(1), portfolio_returns[t])])
    IN  SeriesMin(Drawdown(cumulative, CumMax(cumulative)))

\* weights=None, the default of calculate_portfolio_risk.
None == <<>>

\* Lines 112-128: the risk bundle of a portfolio's returns.  'volatility' is
\* std * sqrt(252) and is kept as its square.
PortfolioBundle(portfolio_returns) ==
    [empty |-> FALSE,
     volatility_sq |-> RMul(R(252), Var(portfolio_returns)),
     var_95 |-> calculate_var(portfolio_returns, Rat(95, 100), "historical"),
     es_95 |-> calculate_expected_shortfall(portfolio_returns, Rat(95, 100)),
     max_drawdown |-> PeakDrawdown(portfolio_returns),
     sharpe_ratio |-> PortfolioSharpe(Mean(portfolio_returns), Var(portfolio_returns))]

\* RiskAgent.calculate_portfolio_risk(returns, weights).  (The portfolio
\* returns are bound as the element of a singleton so that they are computed
\* once; here and below.)
calculate_portfolio_risk(returns, weights) ==
    LET used == IF weights = None THEN EqualWeights ELSE weights
    IN  CHOOSE bundle \in {PortfolioBundle(portfolio_returns) :
                              portfolio_returns \in {PortfolioReturns(returns, used)}} : TRUE

\* A shock with the wrong sign: every asset's returns times (1 - impact).
StressedReturnsReversed(returns, impact) ==
    [a \in DOMAIN returns |->
        [t \in DOMAIN returns[a] |-> RMul(returns[a][t], RSub(R(1), impact))]]

\* Lines 206-208: every asset's returns times (1 + impact).
StressedReturns(returns, impact) ==
    [a \in DOMAIN returns |->
        [t \in DOMAIN returns[a] |-> RMul(returns[a][t], RAdd(R(1), impact))]]

\* Lines 212-219: the entry of a scenario, from its portfolio returns.  Its
\* 'max_drawdown' is ((1 + portfolio_returns).cumprod() - 1).min().
StressMetrics(portfolio_returns) ==
    LET cumulative == CumProd([t \in DOMAIN portfolio_returns |->
                                  RAdd(R(1), portfolio_returns[t])])
    IN  [volatility_sq |-> RMul(R(252), Var(portfolio_returns)),
         var_95 |-> calculate_var(portfolio_returns, Rat(95, 100), "historical"),
         max_drawdown |-> SeriesMin([t \in DOMAIN cumulative |->
                                        RSub(cumulative[t], R(1))])]

\* Lines 205-219: one pass of the scenario loop.
StressEntry(returns, weights, impact) ==
    CHOOSE entry \in {StressMetrics(portfolio_returns) :
                         portfolio_returns \in
                             {PortfolioReturns(StressedReturns(returns, impact), weights)}} : TRUE

\* RiskAgent.stress_test_portfolio(returns, weights, stress_scenarios): a
\* dict with the entry of every scenario; stress_scenarios is a function from
\* scenario names to impacts.
stress_test_portfolio(returns, weights, stress_scenarios) ==
    [empty |-> FALSE,
     scenarios |-> [name \in DOMAIN stress_scenarios |->
                       StressEntry(returns, weights, stress_scenarios[name])]]

\* A marginal contribution that is clamped at zero.
MarginalContributionClamped(weight, covariance, portfolio_variance) ==
    IF IsNaN(portfolio_variance) THEN NaN
    ELSE IF portfolio_variance = R(0) THEN RDiv(RMul(weight, covariance), R(0))
    ELSE IF RLess(RMul(weight, covariance), R(0)) THEN R(0)
    ELSE RMul(weight, covariance)

\* weight * covariance / portfolio_volatility (lines 253-254).  The portfolio
\* volatility sqrt(252 * variance) is the same for every asset of a call, so
\* a contribution is held as the rational it multiplies, w * cov, in units of
\* 1 / portfolio_volatility; a volatility of 0 divides to an infinity or NaN.
MarginalContribution(weight, covariance, portfolio_variance) ==
    IF IsNaN(portfolio_variance) THEN NaN
    ELSE IF portfolio_variance = R(0) THEN RDiv(RMul(weight, covariance), R(0))
    ELSE RMul(weight, covariance)

\* Lines 245-261: the contributions, from the portfolio returns.
RiskContributions(returns, weights, portfolio_returns) ==
    LET marginal == [i \in DOMAIN Assets |->
                        MarginalContribution(weights[i],
                            Cov(returns[Assets[i]], portfolio_returns),
                            Var(portfolio_returns))]
        total_contribution == RSum(marginal)
    IN  [i \in DOMAIN Assets |-> RDiv(marginal[i], total_contribution)]

\* RiskAgent.calculate_risk_contribution(returns, weights): each asset's
\* marginal contribution over their sum.
calculate_risk_contribution(returns, weights) ==
    [empty |-> FALSE,
     contributions |->
        CHOOSE fractions \in {RiskContributions(returns, weights, portfolio_returns) :
                                 portfolio_returns \in {PortfolioReturns(returns, weights)}} : TRUE]

-----------------------------------------------------------------------------
(* The risk engine called on a return series *)

\* The longest return series of a call.
MaxReturns == 3

ReturnValues == {Rat(-2, 100), Rat(-1, 100), R(0), Rat(1, 100)}

ReturnSeries == UNION {[1..n -> ReturnValues] : n \in 1..MaxReturns}

\* Confidence levels inside (0, 1), on its boundary and outside it.
ConfidenceLevels == {Rat(-1, 2), R(0), Rat(1, 20), Rat(1, 2), Rat(19, 20), R(1), Rat(3, 2)}

\* 'monte_carlo' is named by the docstring of calculate_var and has no branch.
VarMethods == {"historical", "parametric", "monte_carlo"}

InitRisk ==
    /\ pc = "idle"
    /\ call = [op |-> "none"]
    /\ frame = <<>>
    /\ result = EmptyDict

CalculateVar ==
    /\ pc = "idle"
    /\ \E returns \in ReturnSeries, c \in ConfidenceLevels, method \in VarMethods :
         /\ method = "parametric" => NormPpfExact(RSub(R(1), c), Var(returns))
         /\ call' = [op |-> "var", returns |-> returns, confidence_level |-> c,
                     method |-> method]
         /\ result' = [empty |-> FALSE, raised |-> FALSE,
                       value |-> calculate_var(returns, c, method)]
    /\ pc' = "done"
    /\ UNCHANGED frame

CalculateExpectedShortfall ==
    /\ pc = "idle"
    /\ \E returns \in ReturnSeries, c \in ConfidenceLevels :
         /\ call' = [op |-> "expected_shortfall", returns |-> returns,
                     confidence_level |-> c]
         /\ result' = [empty |-> FALSE, raised |-> FALSE,
                       value |-> calculate_expected_shortfall(returns, c)]
    /\ pc' = "done"
    /\ UNCHANGED frame

\* The values of an asset's returns in a returns DataFrame.
AssetReturnValues == {Rat(-1, 2), Rat(1, 2)}

ReturnFrames ==
    UNION {[Range(Assets) -> [1..n -> AssetReturnValues]] : n \in 1..MaxReturns}

\* Weights that sum to 1.0: equal, one asset only, a short position, unequal.
WeightVectors == {<<Rat(1, 2), Rat(1, 2)>>, <<R(1), R(0)>>,
                  <<Rat(3, 2), Rat(-1, 2)>>, <<Rat(1, 4), Rat(3, 4)>>}

\* The impacts of the scenarios a caller names.
ScenarioImpacts ==
    [market_crash |-> Rat(-1, 5), unchanged |-> R(0), volatility_spike |-> Rat(1, 2)]

StressScenarios ==
    {[name \in names |-> ScenarioImpacts[name]] :
        names \in {{}, {"market_crash"}, {"market_crash", "unchanged"},
                   {"unchanged", "volatility_spike"}}}

CalculatePortfolioRisk ==
    /\ pc = "idle"
    /\ \E returns \in ReturnFrames, weights \in WeightVectors \cup {None} :
         /\ call' = [op |-> "portfolio_risk", returns |-> returns, weights |-> weights]
         /\ result' = calculate_portfolio_risk(returns, weights)
    /\ pc' = "done"
    /\ UNCHANGED frame

StressTestPortfolio ==
    /\ pc = "idle"
    /\ \E returns \in ReturnFrames, weights \in WeightVectors,
          stress_scenarios \in StressScenarios :
         /\ call' = [op |-> "stress_test", returns |-> returns, weights |-> weights,
                     stress_scenarios |-> stress_scenarios]
         /\ result' = stress_test_portfolio(returns, weights, stress_scenarios)
    /\ pc' = "done"
    /\ UNCHANGED frame

CalculateRiskContribution ==
    /\ pc = "idle"
    /\ \E returns \in ReturnFrames, weights \in WeightVectors :
         /\ call' = [op |-> "risk_contribution", returns |-> returns, weights |-> weights]
         /\ result' = calculate_risk_contribution(returns, weights)
    /\ pc' = "done"
    /\ UNCHANGED frame

NextRisk ==
    \/ CalculateVar
    \/ CalculateExpectedShortfall
    \/ CalculatePortfolioRisk
    \/ StressTestPortfolio
    \/ CalculateRiskContribution

SpecRisk == InitRisk /\ [][NextRisk]_vars

-----------------------------------------------------------------------------
(* Claims about the risk engine *)

\* C6 as claimed: calculate_var with a method other than 'historical' and
\* 'parametric' reports an error to its caller.  The ValueError of line 56 is
\* caught at line 60 of the same function, which returns 0.0, so this fails.
C6_UnknownMethodReported ==
    /\ pc = "done"
    /\ call.op = "var"
    /\ call.method \notin {"historical", "parametric"}
    => result.raised

\* C7 as claimed: calculate_var and calculate_expected_shortfall with a
\* confidence level outside the open interval (0, 1) report an error.  The
\* code returns a float for every confidence level, so this fails.
C7_ConfidenceRangeReported ==
    /\ pc = "done"
    /\ call.op \in {"var", "expected_shortfall"}
    /\ ~(RLess(R(0), call.confidence_level) /\ RLess(call.confidence_level, R(1)))
    => result.raised

\* C11 as claimed: calculate_expected_shortfall returns the mean of the
\* returns at or below the historical VaR of the same confidence level, and
\* where that VaR cannot be computed or no return lies at or below it the
\* result is undefined (NaN or an error), never a number.  calculate_var turns
\* its own failure into the threshold 0.0, and the shortfall is then the mean
\* of the returns at or below 0.0, so this fails.
C11_ShortfallUndefinedReported ==
    pc = "done" /\ call.op = "expected_shortfall" =>
        LET q == RMul(RSub(R(1), call.confidence_level), R(100))
            computable == RLeq(R(0), q) /\ RLeq(q, R(100))
            tail == IF computable
                    THEN AtOrBelow(call.returns, Percentile(call.returns, q))
                    ELSE <<>>
        IN  IF tail # <<>> THEN result.value = Mean(tail)
            ELSE result.raised \/ IsNaN(result.value)

RiskContributed == pc = "done" /\ call.op = "risk_contribution"

CallPortfolioReturns == PortfolioReturns(call.returns, call.weights)

\* weight_i * cov(asset_i, portfolio): m_i times the portfolio volatility,
\* which is positive, so it has the sign of m_i.
WeightedCovariance(i) ==
    RMul(call.weights[i], Cov(call.returns[Assets[i]], CallPortfolioReturns))

\* C14: for weights that sum to 1.0 and a portfolio volatility that is a
\* number other than 0, calculate_risk_contribution returns one fraction per
\* asset, fraction_i = m_i / sum_j m_j with m_i = weight_i * cov(asset_i,
\* portfolio) / portfolio_volatility; the fractions sum to 1.0 and a negative
\* m_i gives a negative fraction.
C14_RiskContributionFractions ==
    /\ RiskContributed
    /\ RSum(call.weights) = R(1)
    /\ IsFinite(Var(CallPortfolioReturns))
    /\ Var(CallPortfolioReturns) # R(0)
    => /\ ~result.empty
       /\ DOMAIN result.contributions = DOMAIN Assets
       /\ \A i \in DOMAIN Assets :
            /\ result.contributions[i]
                  = RDiv(WeightedCovariance(i),
                         RSum([j \in DOMAIN Assets |-> WeightedCovariance(j)]))
            /\ RLess(WeightedCovariance(i), R(0)) => RLess(result.contributions[i], R(0))
       /\ RSum(result.contributions) = R(1)

\* A portfolio with a short position of nonzero volatility, where one
\* asset's fraction is negative and the other's is above 1.
C14_Witness ==
    /\ RiskContributed
    /\ RSum(call.weights) = R(1)
    /\ IsFinite(Var(CallPortfolioReturns))
    /\ Var(CallPortfolioReturns) # R(0)
    /\ \E i, j \in DOMAIN Assets :
         /\ RLess(result.contributions[i], R(0))
         /\ RGreater(result.contributions[j], R(1))

StressTested == pc = "done" /\ call.op = "stress_test"

\* Every row of the unstressed portfolio has a return above 0.
PositiveBaseline ==
    \A t \in DOMAIN CallPortfolioReturns : RGreater(CallPortfolioReturns[t], R(0))

UnstressedVar95 == calculate_var(CallPortfolioReturns, Rat(95, 100), "historical")

\* C15: for a scenario of impact -0.20 on a portfolio whose baseline returns
\* are all positive, the scenario's var_95 is at most the unstressed var_95
\* of the same returns and weights.
C15_CrashLowersVar ==
    /\ StressTested
    /\ "market_crash" \in DOMAIN call.stress_scenarios
    /\ call.stress_scenarios["market_crash"] = Rat(-1, 5)
    /\ PositiveBaseline
    => /\ ~result.empty
       /\ RLeq(result.scenarios["market_crash"].var_95, UnstressedVar95)

\* A crash scenario on positive baseline returns that are not all equal, with
\* a var_95 strictly below the unstressed one.
C15_Witness ==
    /\ StressTested
    /\ "market_crash" \in DOMAIN call.stress_scenarios
    /\ PositiveBaseline
    /\ \E t \in DOMAIN CallPortfolioReturns : CallPortfolioReturns[t] # CallPortfolioReturns[1]
    /\ RLess(result.scenarios["market_crash"].var_95, UnstressedVar95)

\* The bundle calculate_portfolio_risk computes on the shocked returns of a
\* scenario of the call.
ShockedBundle(name) ==
    calculate_portfolio_risk(StressedReturns(call.returns, call.stress_scenarios[name]),
                             call.weights)

\* C16 as claimed: stress_test_portfolio returns one entry per scenario name,
\* and each entry has the volatility, var_95 and max_drawdown of the bundle
\* that calculate_portfolio_risk computes on the shocked returns, so that an
\* impact of 0 reproduces the unstressed bundle.  The entry's max_drawdown is
\* the minimum of the cumulative return, not of the fall from the running
\* peak, so this fails.
C16_StressEntryIsRiskBundle ==
    StressTested =>
        /\ ~result.empty
        /\ DOMAIN result.scenarios = DOMAIN call.stress_scenarios
        /\ \A name \in DOMAIN call.stress_scenarios :
             /\ result.scenarios[name].volatility_sq = ShockedBundle(name).volatility_sq
             /\ result.scenarios[name].var_95 = ShockedBundle(name).var_95
             /\ result.scenarios[name].max_drawdown = ShockedBundle(name).max_drawdown

\* Apart from max_drawdown the entries are those of the bundle: one entry per
\* scenario name, with the bundle's volatility and var_95.
StressEntryVolatilityAndVar ==
    StressTested =>
        /\ DOMAIN result.scenarios = DOMAIN call.stress_scenarios
        /\ \A name \in DOMAIN call.stress_scenarios :
             /\ result.scenarios[name].volatility_sq = ShockedBundle(name).volatility_sq
             /\ result.scenarios[name].var_95 = ShockedBundle(name).var_95

InUnitInterval(c) == RLess(R(0), c) /\ RLess(c, R(1))

HistoricalVarCalled ==
    /\ pc = "done"
    /\ call.op = "var"
    /\ call.method = "historical"
    /\ InUnitInterval(call.confidence_level)
    /\ Cardinality(Range(call.returns)) >= 2

\* C17: for a return series with at least two distinct values and confidence
\* levels c > c' in (0, 1), the historical VaR at c is at most the historical
\* VaR at c'.
C17_VarNonIncreasing ==
    HistoricalVarCalled =>
        \A lower \in ConfidenceLevels :
            InUnitInterval(lower) /\ RLess(lower, call.confidence_level) =>
                RLeq(result.value, calculate_var(call.returns, lower, "historical"))

\* The historical VaR at 0.95 of a series of three distinct returns, strictly
\* below its VaR at 0.5 and at 0.05.
C17_Witness ==
    /\ HistoricalVarCalled
    /\ call.confidence_level = Rat(19, 20)
    /\ Cardinality(Range(call.returns)) = 3
    /\ RLess(result.value, calculate_var(call.returns, Rat(1, 2), "historical"))
    /\ RLess(result.value, calculate_var(call.returns, Rat(1, 20), "historical"))

\* C23 as claimed: a portfolio whose returns have a standard deviation of
\* exactly 0 gets the sharpe_ratio 0 from calculate_portfolio_risk, as a
\* backtest with zero volatility does.  Line 127 divides the mean by the zero
\* without a guard, which gives an infinity, or NaN for a mean of 0, so this
\* fails.
C23_ZeroVolatilitySharpeIsZero ==
    pc = "done" /\ call.op = "portfolio_risk" /\ ~result.empty
        /\ result.volatility_sq = R(0)
    => result.sharpe_ratio = R(0)

-----------------------------------------------------------------------------
(* StrategyAgent: grid search over strategy parameters *)

\* What a backtest hands to the grid search: {} when it failed, else a
\* dictionary of which the search reads 'sharpe_ratio' only.
BacktestResult(sharpe_ratio) == [empty |-> FALSE, sharpe_ratio |-> sharpe_ratio]

\* best_params of a tuple; the key of the second parameter follows the strategy.
BestParams(strategy_type, lookback, second) ==
    IF strategy_type = "momentum"
    THEN [lookback_period |-> lookback, holding_period |-> second]
    ELSE [lookback_period |-> lookback, std_devs |-> second]

\* 'params' of a tuple's entry in all_results.
ResultParams(strategy_type, lookback, second) ==
    IF strategy_type = "momentum"
    THEN [lookback |-> lookback, holding |-> second]
    ELSE [lookback |-> lookback, std_devs |-> second]

\* A loop body that takes a tuple whose Sharpe ratio equals the best so far:
\* the last of the tied tuples wins.
GridStepLastWins(acc, best, entry, outcome) ==
    LET better == IF outcome.empty THEN FALSE
                  ELSE RLeq(acc.best_sharpe, outcome.sharpe_ratio)
    IN  [best_sharpe |-> IF better THEN outcome.sharpe_ratio ELSE acc.best_sharpe,
         best_params |-> IF better THEN best ELSE acc.best_params,
         results     |-> Append(acc.results,
                                [params |-> entry,
                                 sharpe_ratio |-> IF outcome.empty THEN R(0)
                                                  ELSE outcome.sharpe_ratio])]

\* The body of the inner loop for one tuple: the best tuple changes when the
\* backtest returned a non-empty result whose Sharpe ratio is greater than
\* the best so far; the entry of all_results is appended either way, with
\* Sharpe ratio 0 for an empty result.
GridStep(acc, best, entry, outcome) ==
    LET better == IF outcome.empty THEN FALSE
                  ELSE RGreater(outcome.sharpe_ratio, acc.best_sharpe)
    IN  [best_sharpe |-> IF better THEN outcome.sharpe_ratio ELSE acc.best_sharpe,
         best_params |-> IF better THEN best ELSE acc.best_params,
         results     |-> Append(acc.results,
                                [params |-> entry,
                                 sharpe_ratio |-> IF outcome.empty THEN R(0)
                                                  ELSE outcome.sharpe_ratio])]

RECURSIVE InnerLoop(_, _, _, _, _)
InnerLoop(acc, strategy_type, lookback, seconds, backtests) ==
    IF seconds = <<>> THEN acc
    ELSE InnerLoop(GridStep(acc,
                            BestParams(strategy_type, lookback, Head(seconds)),
                            ResultParams(strategy_type, lookback, Head(seconds)),
                            backtests[<<lookback, Head(seconds)>>]),
                   strategy_type, lookback, Tail(seconds), backtests)

RECURSIVE OuterLoop(_, _, _, _, _)
OuterLoop(acc, strategy_type, lookbacks, seconds, backtests) ==
    IF lookbacks = <<>> THEN acc
    ELSE OuterLoop(InnerLoop(acc, strategy_type, Head(lookbacks), seconds, backtests),
                   strategy_type, Tail(lookbacks), seconds, backtests)

SecondKey(strategy_type) ==
    IF strategy_type = "momentum" THEN "holding_period" ELSE "std_devs"

\* StrategyAgent.optimize_strategy_parameters(data, strategy_type,
\* param_ranges), for param_ranges holding the two lists of the strategy.
\* backtests[<<lookback, second>>] is what the backtest of data.copy() with
\* that tuple returns.
optimize_strategy_parameters(strategy_type, param_ranges, backtests) ==
    LET start == [best_sharpe |-> NegInf, best_params |-> EmptyDict, results |-> <<>>]
        final == OuterLoop(start, strategy_type, param_ranges["lookback_period"],
                           param_ranges[SecondKey(strategy_type)], backtests)
    IN  [empty |-> FALSE,
         best_params |-> final.best_params,
         best_sharpe_ratio |-> final.best_sharpe,
         all_results |-> final.results]

-----------------------------------------------------------------------------
(* The grid search called on a frame *)

\* The number of look-back periods of the grid, taken from the front of the
\* default range(10, 51, 10).
NLookbacks == 2

LookbackRanges == {[i \in 1..n |-> 10 * i] : n \in 0..NLookbacks}

\* The front of the default range(1, 11, 2).
HoldingPeriodRange == <<1, 3>>

\* The front of the default [1.5, 2.0, 2.5].
StdDevsRange == <<Rat(3, 2), R(2)>>

StrategyTypes == {"momentum", "mean_reversion"}

ParamRanges(strategy_type) ==
    IF strategy_type = "momentum"
    THEN {[lookback_period |-> l, holding_period |-> HoldingPeriodRange] : l \in LookbackRanges}
    ELSE {[lookback_period |-> l, std_devs |-> StdDevsRange] : l \in LookbackRanges}

\* The Sharpe ratio of a backtest that did not fail: NaN (too few net returns
\* for a standard deviation, or negative final equity) or a number.
SharpeOutcomes == {NaN, R(-1), R(0), R(1)}

Tuples(strategy_type, param_ranges) ==
    {<<param_ranges["lookback_period"][i], param_ranges[SecondKey(strategy_type)][j]>> :
        i \in DOMAIN param_ranges["lookback_period"],
        j \in DOMAIN param_ranges[SecondKey(strategy_type)]}

\* What the backtests of one frame can return over the grid.  A frame the
\* backtest fails on (no 'Close' column, no rows) fails for every tuple; the
\* momentum backtest never reads holding_period, so its result is one per
\* look-back period.
BacktestOutcomes(strategy_type, param_ranges) ==
    LET tuples == Tuples(strategy_type, param_ranges)
        lookbacks == {t[1] : t \in tuples}
    IN  {[t \in tuples |-> EmptyDict]}
        \cup (IF strategy_type = "momentum"
              THEN {[t \in tuples |-> BacktestResult(by_lookback[t[1]])] :
                        by_lookback \in [lookbacks -> SharpeOutcomes]}
              ELSE {[t \in tuples |-> BacktestResult(by_tuple[t])] :
                        by_tuple \in [tuples -> SharpeOutcomes]})

InitOptimize ==
    /\ pc = "idle"
    /\ call = [op |-> "none"]
    /\ frame = <<>>
    /\ result = EmptyDict

OptimizeStrategyParameters ==
    /\ pc = "idle"
    /\ \E strategy_type \in StrategyTypes :
         \E param_ranges \in ParamRanges(strategy_type) :
           \E backtests \in BacktestOutcomes(strategy_type, param_ranges) :
             /\ call' = [op |-> "optimize", strategy_type |-> strategy_type,
                         param_ranges |-> param_ranges, backtests |-> backtests]
             /\ result' = optimize_strategy_parameters(strategy_type, param_ranges, backtests)
    /\ pc' = "done"
    /\ UNCHANGED frame

NextOptimize == OptimizeStrategyParameters

SpecOptimize == InitOptimize /\ [][NextOptimize]_vars

-----------------------------------------------------------------------------
(* Claims about the grid search *)

Optimized == pc = "done" /\ call.op = "optimize"

GridLookbacks == call.param_ranges["lookback_period"]

GridSeconds == call.param_ranges[SecondKey(call.strategy_type)]

\* The tuples in enumeration order, numbered from 1: the look-back period is
\* the outer loop, the second parameter the inner one.
GridSize == Len(GridLookbacks) * Len(GridSeconds)

LookbackAt(k) == GridLookbacks[((k - 1) \div Len(GridSeconds)) + 1]

SecondAt(k) == GridSeconds[((k - 1) % Len(GridSeconds)) + 1]

BacktestAt(k) == call.backtests[<<LookbackAt(k), SecondAt(k)>>]

\* all_results has one entry per tuple, in enumeration order.
AllResultsInOrder ==
    /\ Len(result.all_results) = GridSize
    /\ \A k \in 1..GridSize :
         result.all_results[k].params
            = ResultParams(call.strategy_type, LookbackAt(k), SecondAt(k))

Comparable == {k \in 1..GridSize : IF BacktestAt(k).empty THEN FALSE
                                   ELSE ~IsNaN(BacktestAt(k).sharpe_ratio)}

-----------------------------------------------------------------------------
(* The momentum grid search called on a caller's frame *)

\* The parameter grids of the momentum searches of the model: none, one or
\* two look-back periods, and two holding periods in either order.
MomentumGrids ==
    {[lookback_period |-> lookbacks, holding_period |-> holdings] :
        lookbacks \in {<<>>, <<1>>, <<1, 2>>, <<3, 2>>},
        holdings \in {<<1, 5>>, <<5, 1>>}}

\* The scale of a Sharpe ratio that is known by its sign only.
SharpeScales == {1, 2}

\* What the search reads of a backtest's result: {} or its 'sharpe_ratio'.  A
\* Sharpe ratio known by its sign only is given the scale chosen for that
\* result, so that the order of two such ratios is any order.
GridOutcome(backtest, scale) ==
    IF backtest.empty THEN EmptyDict
    ELSE IF backtest.sharpe_ratio[2] = -1
         THEN BacktestResult(R(backtest.sharpe_ratio[1] * scale))
         ELSE BacktestResult(backtest.sharpe_ratio)

\* Lines 225-229: the backtest of data.copy() for each tuple of the grid.  The
\* backtest takes its defaults, settings.INITIAL_CAPITAL and
\* settings.COMMISSION_RATE; the model gives the latter the rates it calls the
\* backtests with.
GridBacktests(data, param_ranges, commission_rate) ==
    [t \in Tuples("momentum", param_ranges) |->
        backtest_momentum_strategy(data, t[1], t[2], InitialCapital, commission_rate).result]

\* optimize_strategy_parameters(data, 'momentum', param_ranges) on the
\* caller's frame, which the backtests of data.copy() leave as it is.
OptimizeMomentum ==
    /\ pc = "idle"
    /\ \E param_ranges \in MomentumGrids, rate \in CommissionRates :
         \E returned \in {GridBacktests(frame, param_ranges, rate)} :
           \E scale \in [Range(returned) -> SharpeScales] :
             \E backtests \in {[t \in DOMAIN returned |->
                                   GridOutcome(returned[t], scale[returned[t]])]} :
               /\ call' = [op |-> "optimize", strategy_type |-> "momentum",
                           data |-> frame, param_ranges |-> param_ranges,
                           commission_rate |-> rate,
                           returned |-> returned, backtests |-> backtests]
               /\ result' = optimize_strategy_parameters("momentum", param_ranges, backtests)
    /\ pc' = "done"
    /\ UNCHANGED frame

NextMomentumGrid == BacktestMomentum \/ OptimizeMomentum

SpecMomentumGrid == InitBacktest /\ [][NextMomentumGrid]_vars

-----------------------------------------------------------------------------
(* Claims about the momentum grid search *)

\* Two backtests of the grid that differ in holding_period only returned
\* identical results, and a direct call returns what it would return for
\* every other holding_period.
HoldingPeriodIgnored ==
    /\ Optimized =>
           \A t1, t2 \in DOMAIN call.returned :
               t1[1] = t2[1] => call.returned[t1] = call.returned[t2]
    /\ pc = "done" /\ call.op = "momentum" =>
           \A holding \in HoldingPeriods :
               backtest_momentum_strategy(call.data, call.lookback_period, holding,
                                          InitialCapital, call.commission_rate)
                  = [frame |-> frame, result |-> result]

\* The entries of all_results of one look-back period hold one Sharpe ratio.
HoldingPeriodsTie ==
    Optimized =>
        \A j, k \in 1..GridSize :
            LookbackAt(j) = LookbackAt(k) =>
                result.all_results[j].sharpe_ratio = result.all_results[k].sharpe_ratio

-----------------------------------------------------------------------------
(* ResearchAgent: the analysis of a universe *)

\* len(data): the number of rows of a frame, a function from its column
\* names to equally long series.
FrameLen(data) == Len(data[CHOOSE column \in DOMAIN data : TRUE])

\* Series.rolling(window, min_periods=1).max(): the greatest of the last
\* `window` rows up to row t.
RollingMaxFrom(s, t, window) ==
    LET first == IF t - window + 1 < 1 THEN 1 ELSE t - window + 1
    IN  CHOOSE m \in {s[u] : u \in first..t} :
            \A u \in first..t : ~RLess(m, s[u])

\* Lines 52-86: the entry of one ticker.  The annualized volatility is kept
\* as its square; 'fundamentals' comes from the data provider and is left out.
AnalysisEntry(data, lookback_period) ==
    LET close == data["Close"]
        returns == PctChange(close, 1)
        rolling_max == [t \in DOMAIN close |-> RollingMaxFrom(close, t, lookback_period)]
    IN  [daily_mean |-> Mean(returns),
         daily_variance |-> Var(returns),
         volatility_sq |-> RMul(R(252), Var(returns)),
         sharpe_ratio |-> PortfolioSharpe(Mean(returns), Var(returns)),
         max_drawdown |-> SeriesMin(Drawdown(close, rolling_max)),
         avg_volume |-> Mean(data["Volume"]),
         volume_variance |-> Var(data["Volume"])]

\* Line 47: the tickers that are analysed, those with at least
\* lookback_period rows.
Sufficient(universe, lookback_period) ==
    {i \in DOMAIN universe : FrameLen(universe[i].data) >= lookback_period}

\* ResearchAgent.analyze_universe(universe_data, lookback_period).  universe
\* is the dict in iteration order, a sequence of [ticker, data].  A ticker
\* with fewer rows than lookback_period is passed over with a log line; a
\* KeyError for a missing column of an analysed ticker ends the call with {}.
\* The dict returned maps tickers to entries; the empty dict is EmptyDict.
analyze_universe(universe, lookback_period) ==
    LET analysed == Sufficient(universe, lookback_period)
    IN  IF \E i \in analysed : {"Close", "Volume"} \ DOMAIN universe[i].data # {}
        THEN EmptyDict
        ELSE IF analysed = {} THEN EmptyDict
        ELSE [empty |-> FALSE,
              analysis |-> [ticker \in {universe[i].ticker : i \in analysed} |->
                               AnalysisEntry(
                                   universe[CHOOSE i \in analysed :
                                                universe[i].ticker = ticker].data,
                                   lookback_period)]]

-----------------------------------------------------------------------------
(* The analysis called on a universe *)

\* The closes of a ticker's frame: up to MaxBars bars at one of two prices.
ResearchCloses == UNION {[1..n -> {R(1), R(2)}] : n \in 0..MaxBars}

ResearchFrames ==
    {[Close |-> close, Volume |-> [t \in DOMAIN close |-> R(1000)]] : close \in ResearchCloses}
    \cup {[Volume |-> <<R(1000), R(1000)>>], [Close |-> <<R(1), R(2)>>]}

ResearchUniverses ==
    UNION {[1..n -> ResearchFrames] : n \in 1..2}

ResearchLookbacks == {2, 3}

InitResearch ==
    /\ pc = "idle"
    /\ call = [op |-> "none"]
    /\ frame = <<>>
    /\ result = EmptyDict

AnalyzeUniverse ==
    /\ pc = "idle"
    /\ \E frames \in ResearchUniverses, lookback_period \in ResearchLookbacks :
         LET universe == [i \in DOMAIN frames |-> [ticker |-> Tickers[i], data |-> frames[i]]]
         IN  /\ call' = [op |-> "analyze", universe |-> universe,
                         lookback_period |-> lookback_period]
             /\ result' = analyze_universe(universe, lookback_period)
    /\ pc' = "done"
    /\ UNCHANGED frame

NextResearch == AnalyzeUniverse

SpecResearch == InitResearch /\ [][NextResearch]_vars

-----------------------------------------------------------------------------
(* Claims about the analysis of a universe *)

Analyzed == pc = "done" /\ call.op = "analyze"

\* The tickers of the call with fewer rows than the look-back period.
ShortTickers ==
    {call.universe[i].ticker :
        i \in DOMAIN call.universe \ Sufficient(call.universe, call.lookback_period)}

\* The call has a short ticker, and no analysed ticker lacks a column.
ShortButNoneRaising ==
    /\ Analyzed
    /\ ShortTickers # {}
    /\ \A i \in Sufficient(call.universe, call.lookback_period) :
         {"Close", "Volume"} \subseteq DOMAIN call.universe[i].data

AnalysedTickers == IF result.empty THEN {} ELSE DOMAIN result.analysis

\* C18 as claimed: tickers with fewer bars than the look-back period are left
\* out of the results without an error, and the result tells the caller how
\* many or which were left out.  The dict returned holds the analysed tickers
\* and nothing else, and is the same {} an error returns when every ticker
\* is short, so this fails.
C18_ExcludedAssetsSurfaced ==
    ShortButNoneRaising =>
        /\ AnalysedTickers \cap ShortTickers = {}
        /\ ~result.empty
        /\ \/ "excluded" \in DOMAIN result
           \/ "excluded_count" \in DOMAIN result

\* Short tickers are left out and every other ticker is analysed.
ShortTickersLeftOut ==
    ShortButNoneRaising =>
        AnalysedTickers = {call.universe[i].ticker : i \in DOMAIN call.universe} \ ShortTickers

-----------------------------------------------------------------------------
(* PlayAgent: the indicators and the signals of one symbol *)

\* Series.iloc[-1]
Last(s) == s[Len(s)]

\* delta.where(delta > 0, 0) and -delta.where(delta < 0, 0): the rows where
\* the condition is False, the NaN of the first row among them, become 0.
Gains(delta) ==
    [t \in DOMAIN delta |-> IF RGreater(delta[t], R(0)) THEN delta[t] ELSE R(0)]

Losses(delta) ==
    [t \in DOMAIN delta |-> IF RLess(delta[t], R(0)) THEN RNeg(delta[t]) ELSE R(0)]

\* 100 - (100 / (1 + gain / loss)), row by row, in float arithmetic: a loss of
\* 0 divides to +inf for a positive gain and to NaN for a gain of 0.
RsiOf(gain, loss) ==
    [t \in DOMAIN gain |->
        RSub(R(100), RDiv(R(100), RAdd(R(1), RDiv(gain[t], loss[t]))))]

\* A column as pandas holds it: every row computed when the column is made.
Column(s) == SubSeq(s, 1, Len(s))

\* PlayAgent._calculate_rsi(prices, window).
_calculate_rsi(prices, window) ==
    CHOOSE rsi \in
        {Column(RsiOf(average[1], average[2])) :
            average \in
                {<<Column(RollingMean(change[1], window)),
                   Column(RollingMean(change[2], window))>> :
                    change \in {<<Column(Gains(delta)), Column(Losses(delta))>> :
                                   delta \in {Column(Diff(prices))}}}} : TRUE

\* Lines 73-76: the indicator columns written into a symbol's frame.
WithIndicators(data) ==
    CHOOSE out \in
        {[c \in DOMAIN data \cup DOMAIN columns |->
             IF c \in DOMAIN columns THEN columns[c] ELSE data[c]] :
            columns \in {[Returns |-> Column(PctChange(data["Close"], 1)),
                          MA20 |-> Column(RollingMean(data["Close"], 20)),
                          MA50 |-> Column(RollingMean(data["Close"], 50)),
                          RSI |-> _calculate_rsi(data["Close"], 14)]}} : TRUE

\* A momentum signal with comparisons that admit equality.
GenerateMomentumSignalNonStrict(data) ==
    IF RLeq(Last(data["MA20"]), Last(data["Close"]))
       /\ RLeq(Last(data["MA50"]), Last(data["MA20"])) THEN 1
    ELSE IF RLeq(Last(data["Close"]), Last(data["MA20"]))
            /\ RLeq(Last(data["MA20"]), Last(data["MA50"])) THEN -1
    ELSE 0

\* PlayAgent._generate_momentum_signal(data).
_generate_momentum_signal(data) ==
    IF RGreater(Last(data["Close"]), Last(data["MA20"]))
       /\ RGreater(Last(data["MA20"]), Last(data["MA50"])) THEN 1
    ELSE IF RLess(Last(data["Close"]), Last(data["MA20"]))
            /\ RLess(Last(data["MA20"]), Last(data["MA50"])) THEN -1
    ELSE 0

\* A mean-reversion signal whose thresholds include 30 and 70.
GenerateMeanReversionSignalInclusive(data) ==
    IF RLeq(Last(data["RSI"]), R(30)) THEN 1
    ELSE IF RLeq(R(70), Last(data["RSI"])) THEN -1
    ELSE 0

\* PlayAgent._generate_mean_reversion_signal(data).
_generate_mean_reversion_signal(data) ==
    IF RLess(Last(data["RSI"]), R(30)) THEN 1
    ELSE IF RGreater(Last(data["RSI"]), R(70)) THEN -1
    ELSE 0

-----------------------------------------------------------------------------
(* The signals called on a symbol's frame *)

\* A close series as runs <<len, first, step>>: len bars that start at
\* `first` and change by `step` from bar to bar.
Run(r) == [i \in 1..r[1] |-> R(r[2] + (i - 1) * r[3])]

RECURSIVE Concat(_)
Concat(runs) == IF runs = <<>> THEN <<>> ELSE Run(Head(runs)) \o Concat(Tail(runs))

\* The shapes of the series: a level of 100 and then a rise, a fall or the
\* same level; a rise or a fall from the first bar; a rise or a fall that
\* ends in a level; and series built to meet a threshold exactly:
\*   - one gain and one loss in the last 14 changes, in the proportions
\*     3:7 (RSI 30), 7:3 (RSI 70), 3:8, 4:7, 8:3 and 7:4;
\*   - a last close above or below an MA20 that equals the MA50, and a last
\*     close equal to an MA20 above or below the MA50.
SignalShapes ==
    {<<<<n1, 100, 0>>, <<n2, 100 + d, d>>>> :
        n1 \in {1, 6, 30, 36}, n2 \in {0, 13, 14, 20}, d \in {-1, 0, 1}}
    \cup {<<<<n, 100, d>>>> : n \in {14, 15, 20, 50, 51}, d \in {-1, 1}}
    \cup {<<<<n1, 100, d>>, <<n2, 100 + (n1 - 1) * d, 0>>>> :
            n1 \in {30, 51}, n2 \in {5, 14, 20}, d \in {-1, 1}}
    \cup {<<<<36, 100, 0>>, <<1, 100 + up, 0>>, <<13, 100 + up - down, 0>>>> :
            up \in {3, 4, 7, 8}, down \in {3, 4, 7, 8}}
    \cup {<<<<30, 100, 0>>, <<19, 99, 0>>, <<1, 119, 0>>>>,
          <<<<30, 100, 0>>, <<19, 101, 0>>, <<1, 81, 0>>>>,
          <<<<30, 100, 0>>, <<20, 101, 0>>>>,
          <<<<30, 100, 0>>, <<20, 99, 0>>>>}

SignalCloses == {Concat(shape) : shape \in SignalShapes}

RsiWindows == {3, 14}

InitSignals ==
    /\ pc = "idle"
    /\ call = [op |-> "none"]
    /\ frame \in {PriceFrame(c) : c \in SignalCloses}
    /\ result = EmptyDict

\* self._calculate_rsi(data['Close']), and the same with a shorter window.
CalculateRsi ==
    /\ pc = "idle"
    /\ \E window \in RsiWindows :
         /\ call' = [op |-> "rsi", data |-> frame, window |-> window]
         /\ result' = [empty |-> FALSE, rsi |-> _calculate_rsi(frame["Close"], window)]
    /\ pc' = "done"
    /\ UNCHANGED frame

\* Lines 73-79: the indicator columns, then the momentum signal.
GenerateMomentumSignal ==
    /\ pc = "idle"
    /\ call' = [op |-> "momentum_signal", data |-> frame]
    /\ \E data \in {WithIndicators(frame)} :
         /\ frame' = data
         /\ result' = [empty |-> FALSE, signal |-> _generate_momentum_signal(data)]
    /\ pc' = "done"

\* Lines 73-76 and 80: the indicator columns, then the mean-reversion signal.
GenerateMeanReversionSignal ==
    /\ pc = "idle"
    /\ call' = [op |-> "mean_reversion_signal", data |-> frame]
    /\ \E data \in {WithIndicators(frame)} :
         /\ frame' = data
         /\ result' = [empty |-> FALSE, signal |-> _generate_mean_reversion_signal(data)]
    /\ pc' = "done"

NextSignals == CalculateRsi \/ GenerateMomentumSignal \/ GenerateMeanReversionSignal

SpecSignals == InitSignals /\ [][NextSignals]_vars

-----------------------------------------------------------------------------
(* Claims about the signals *)

\* The sum of the closes of bars lo..hi, which are whole numbers in the
\* series of the model.
RECURSIVE SumOfCloses(_, _, _)
SumOfCloses(close, lo, hi) ==
    IF lo > hi THEN 0
    ELSE IF lo = hi THEN close[lo][1]
    ELSE SumOfCloses(close, lo, (lo + hi) \div 2)
            + SumOfCloses(close, (lo + hi) \div 2 + 1, hi)

SumOfLast(close, k) == SumOfCloses(close, Len(close) - k + 1, Len(close))

\* last close > MA20 > MA50 and last close < MA20 < MA50, on whole numbers;
\* False when the series has fewer than 50 bars.
CloseAboveAverages(close) ==
    /\ Len(close) >= 50
    /\ 20 * Last(close)[1] > SumOfLast(close, 20)
    /\ 50 * SumOfLast(close, 20) > 20 * SumOfLast(close, 50)

CloseBelowAverages(close) ==
    /\ Len(close) >= 50
    /\ 20 * Last(close)[1] < SumOfLast(close, 20)
    /\ 50 * SumOfLast(close, 20) < 20 * SumOfLast(close, 50)

MomentumSignalled == pc = "done" /\ call.op = "momentum_signal"

\* C26: the momentum signal is +1 exactly when last close > MA20 > MA50, -1
\* exactly when last close < MA20 < MA50, and 0 otherwise: with equality in
\* either comparison, and with fewer than 50 bars, where MA50 (and below 20
\* bars MA20) is NaN.
C26_MomentumSignal ==
    MomentumSignalled =>
        /\ result.signal = 1 <=> CloseAboveAverages(call.data["Close"])
        /\ result.signal = -1 <=> CloseBelowAverages(call.data["Close"])
        /\ result.signal \in {-1, 0, 1}
        /\ Len(call.data["Close"]) < 50 => result.signal = 0

\* A series of 50 bars whose last close is above an MA20 that equals the MA50
\* got the signal 0.
C26_Witness ==
    /\ MomentumSignalled
    /\ Len(call.data["Close"]) >= 50
    /\ 20 * Last(call.data["Close"])[1] > SumOfLast(call.data["Close"], 20)
    /\ 50 * SumOfLast(call.data["Close"], 20) = 20 * SumOfLast(call.data["Close"], 50)
    /\ result.signal = 0

MeanReversionSignalled == pc = "done" /\ call.op = "mean_reversion_signal"

\* C27: the mean-reversion signal is +1 exactly when the last RSI is below
\* 30, -1 exactly when it is above 70, and 0 otherwise: at exactly 30 or 70
\* and for an RSI that is NaN; and a series of constant close gets 0 for both
\* the momentum and the mean-reversion signal.
C27_MeanReversionSignal ==
    /\ MeanReversionSignalled =>
           LET rsi == Last(frame["RSI"])
           IN  /\ result.signal = 1 <=> ~IsNaN(rsi) /\ RLess(rsi, R(30))
               /\ result.signal = -1 <=> ~IsNaN(rsi) /\ RGreater(rsi, R(70))
               /\ result.signal \in {-1, 0, 1}
               /\ rsi \in {NaN, R(30), R(70)} => result.signal = 0
    /\ (MeanReversionSignalled \/ MomentumSignalled) /\ ConstantClose =>
           result.signal = 0

\* A series whose last RSI is exactly 30 got the signal 0.
C27_Witness ==
    /\ MeanReversionSignalled
    /\ Last(frame["RSI"]) = R(30)
    /\ result.signal = 0

RsiCalculated == pc = "done" /\ call.op = "rsi"

\* The changes of the window of bars that ends at bar t (the first bar of a
\* series has none), and whether one of them is a fall or a rise.
WindowChanges(t) == {i \in (t - call.window + 1)..t : i >= 2}

LossInWindow(t) ==
    \E i \in WindowChanges(t) : RLess(call.data["Close"][i], call.data["Close"][i - 1])

GainInWindow(t) ==
    \E i \in WindowChanges(t) : RGreater(call.data["Close"][i], call.data["Close"][i - 1])

\* C28 as claimed: at every bar with a full window and an average loss of
\* 0, the RSI is exactly 100, whether the average gain is positive or 0.
\* With both averages 0 the code computes 0 / 0, and NaN is the RSI, so this
\* fails.
C28_RsiClampedWithoutLoss ==
    RsiCalculated =>
        \A t \in call.window..Len(call.data["Close"]) :
            ~LossInWindow(t) => result.rsi[t] = R(100)

\* With an average loss of 0 and a positive average gain the division gives
\* +inf and the RSI is exactly 100; no RSI is an infinity; and the RSI is
\* NaN exactly where the window is not full or holds no change at all.
RsiWithoutLossAndWithGain ==
    RsiCalculated =>
        \A t \in DOMAIN call.data["Close"] :
            /\ t >= call.window /\ ~LossInWindow(t) /\ GainInWindow(t) =>
                   result.rsi[t] = R(100)
            /\ result.rsi[t] \notin {PosInf, NegInf}
            /\ IsNaN(result.rsi[t])
                   <=> t < call.window \/ (~LossInWindow(t) /\ ~GainInWindow(t))

-----------------------------------------------------------------------------
(* StrategyAgent: the momentum backtest of a long, steadily rising series *)

\* The exact rationals of the model overflow on sixty bars of compound
\* growth.  Here a float is enclosed between two fixed-point bounds:
\* <<lo, hi, scale>> stands for a value v with lo / scale <= v <= hi / scale.
\* Every operation rounds lo down and hi up, so the enclosure holds for the
\* exact value, which the float64 of the code matches to 15 digits.  Signal,
\* Position, Trades and Commission take few values and stay exact rationals.
CeilDiv(a, b) == -((-a) \div b)

\* 1 + x and the product of two enclosures of one scale.
OnePlus(x) == <<x[1] + x[3], x[2] + x[3], x[3]>>

Least(set) == CHOOSE a \in set : \A b \in set : a <= b

Greatest(set) == CHOOSE a \in set : \A b \in set : b <= a

Times(x, y) ==
    <<Least({x[1] * y[1], x[1] * y[2], x[2] * y[1], x[2] * y[2]}) \div x[3],
      CeilDiv(Greatest({x[1] * y[1], x[1] * y[2], x[2] * y[1], x[2] * y[2]}), x[3]),
      x[3]>>

\* The enclosure, at a scale, of an exact rational.
Enclose(x, scale) == <<(x[1] * scale) \div x[2], CeilDiv(x[1] * scale, x[2]), scale>>

\* An enclosure times, and divided by, an exact positive rational.
ScaledBy(x, factor) ==
    <<(x[1] * factor[1]) \div factor[2], CeilDiv(x[2] * factor[1], factor[2]), x[3]>>

DividedBy(x, divisor) ==
    <<(x[1] * divisor[2]) \div divisor[1], CeilDiv(x[2] * divisor[2], divisor[1]), x[3]>>

\* later / earlier - 1 at a scale, for enclosures of positive values:
\* Series.pct_change row by row.
RelativeChange(later, earlier, scale) ==
    <<((later[1] - earlier[2]) * scale)
          \div (IF later[1] >= earlier[2] THEN earlier[2] ELSE earlier[1]),
      CeilDiv((later[2] - earlier[1]) * scale,
              IF later[2] >= earlier[1] THEN earlier[1] ELSE earlier[2]),
      scale>>

EnclosedPctChange(s, periods, scale) ==
    [t \in DOMAIN s |->
        IF t - periods \in DOMAIN s
        THEN RelativeChange(s[t], s[t - periods], scale)
        ELSE NaN]

\* A signal that is the opposite of the momentum's sign.
EnclosedMomentumSignalInverted(momentum) ==
    [t \in DOMAIN momentum |->
        IF ~IsNaN(momentum[t]) /\ momentum[t][1] > 0 THEN R(-1) ELSE R(1)]

\* np.where(data['Momentum'] > 0, 1, -1) on enclosures: 1 where the lower
\* bound is above 0, -1 where the momentum is NaN or its upper bound is not
\* above 0.  (An enclosure that holds 0 inside would leave the signal open;
\* the series of the model have none.)
EnclosedMomentumSignal(momentum) ==
    [t \in DOMAIN momentum |->
        IF ~IsNaN(momentum[t]) /\ momentum[t][1] > 0 THEN R(1) ELSE R(-1)]

\* Position * Returns, for a position of NaN, -1, 0 or 1.
EnclosedStrategyReturns(position, returns) ==
    [t \in DOMAIN position |->
        IF IsNaN(position[t]) \/ IsNaN(returns[t]) THEN NaN
        ELSE IF position[t] = R(1) THEN returns[t]
        ELSE IF position[t] = R(-1) THEN <<-returns[t][2], -returns[t][1], returns[t][3]>>
        ELSE <<0, 0, returns[t][3]>>]

\* Strategy_Returns - Commission
EnclosedNet(strategy_returns, commission) ==
    [t \in DOMAIN commission |->
        IF IsNaN(strategy_returns[t]) \/ IsNaN(commission[t]) THEN NaN
        ELSE <<strategy_returns[t][1] - Enclose(commission[t], strategy_returns[t][3])[2],
               strategy_returns[t][2] - Enclose(commission[t], strategy_returns[t][3])[1],
               strategy_returns[t][3]>>]

\* (1 + net).cumprod(): the running product up to row t, NaN rows skipped,
\* and the column, in which a NaN row stays NaN.
GrowthStep(before, x) ==
    IF IsNaN(x) THEN [product |-> before.product, column |-> Append(before.column, NaN)]
    ELSE CHOOSE after \in {[product |-> p, column |-> Append(before.column, p)] :
                              p \in {Times(before.product, OnePlus(x))}} : TRUE

\* The rows from..to, by halves.
RECURSIVE GrowthOver(_, _, _, _)
GrowthOver(before, net, from, to) ==
    IF from > to THEN before
    ELSE IF from = to THEN GrowthStep(before, net[from])
    ELSE CHOOSE after \in {GrowthOver(middle, net, (from + to) \div 2 + 1, to) :
                              middle \in {GrowthOver(before, net, from, (from + to) \div 2)}} :
            TRUE

EnclosedEquity(net, initial_capital, scale) ==
    CHOOSE equity \in {[t \in DOMAIN net |->
                           IF IsNaN(growth[t]) THEN NaN
                           ELSE ScaledBy(growth[t], initial_capital)] :
                          growth \in {GrowthOver([product |-> <<scale, scale, scale>>,
                                                  column |-> <<>>],
                                                 net, 1, Len(net)).column}} : TRUE

\* The columns up to Equity and the entries of the result that need no
\* standard deviation, peak or fractional power, as lines 51-72 and 83-84
\* compute them.
EnclosedResult(frame_out, initial_capital) ==
    [frame |-> frame_out,
     result |-> [empty |-> FALSE,
                 total_return |->
                     <<DividedBy(Last(frame_out["Equity"]), initial_capital)[1] - 10000,
                       DividedBy(Last(frame_out["Equity"]), initial_capital)[2] - 10000,
                       10000>>,
                 total_trades |-> CountPositive(frame_out["Trades"]),
                 equity_curve |-> frame_out["Equity"]]]

EnclosedSimulation(close, momentum, signal, position, returns, initial_capital, commission_rate) ==
    CHOOSE out \in
        {EnclosedResult([Close |-> close, Returns |-> returns, Momentum |-> momentum,
                         Signal |-> signal, Position |-> position,
                         Strategy_Returns |-> EnclosedStrategyReturns(position, returns),
                         Trades |-> Trades(position),
                         Commission |-> Commission(Trades(position), commission_rate),
                         Strategy_Returns_Net |-> net,
                         Equity |-> EnclosedEquity(net, initial_capital, 10000)],
                        initial_capital) :
            net \in {EnclosedNet(EnclosedStrategyReturns(position, returns),
                                 Commission(Trades(position), commission_rate))}} : TRUE

\* StrategyAgent.backtest_momentum_strategy on a frame whose closes are
\* enclosures: returns to four decimal places, momentum to two.
BacktestMomentumEnclosed(data, lookback_period, holding_period, initial_capital, commission_rate) ==
    CHOOSE out \in
        {EnclosedSimulation(data["Close"], momentum, signal, PositionOf(signal), returns,
                            initial_capital, commission_rate) :
            momentum \in {EnclosedPctChange(data["Close"], lookback_period, 100)},
            returns \in {EnclosedPctChange(data["Close"], 1, 10000)},
            signal \in {EnclosedMomentumSignal(
                            EnclosedPctChange(data["Close"], lookback_period, 100))}} : TRUE

-----------------------------------------------------------------------------
(* The momentum backtest called on a rising series *)

\* One more close, 1% above the last.
RisingStep(closes) ==
    Append(closes, <<(Last(closes)[1] * 101) \div 100,
                     CeilDiv(Last(closes)[2] * 101, 100), 1000000>>)

\* k more closes, by halves.
RECURSIVE RisingMore(_, _)
RisingMore(closes, k) ==
    IF k = 0 THEN closes
    ELSE IF k = 1 THEN RisingStep(closes)
    ELSE CHOOSE more \in {RisingMore(half, k - k \div 2) :
                             half \in {RisingMore(closes, k \div 2)}} : TRUE

\* n closes that start at 1.0 and are each 1% above the one before, to six
\* decimal places.
RisingCloses(n) == RisingMore(<<<<1000000, 1000000, 1000000>>>>, n - 1)

TrendLengths == 21..60

TrendLookbacks == {5, 10, 20}

\* settings.COMMISSION_RATE, 0.001 unless the environment overrides it, and
\* the rates of 1%, 5% and 10% a caller may pass.
TrendCommissionRates == {Rat(1, 1000), Rat(1, 100), Rat(1, 20), Rat(1, 10)}

InitTrend ==
    /\ pc = "idle"
    /\ call = [op |-> "none"]
    /\ frame \in {PriceFrame(RisingCloses(n)) : n \in TrendLengths}
    /\ result = EmptyDict

BacktestTrend ==
    /\ pc = "idle"
    /\ \E lookback \in TrendLookbacks, rate \in TrendCommissionRates :
         \E out \in {BacktestMomentumEnclosed(frame, lookback, 5, InitialCapital, rate)} :
             /\ call' = [op |-> "momentum", data |-> frame,
                         lookback_period |-> lookback, holding_period |-> 5,
                         commission_rate |-> rate]
             /\ frame' = out.frame
             /\ result' = out.result
    /\ pc' = "done"

NextTrend == BacktestTrend

SpecTrend == InitTrend /\ [][NextTrend]_vars

-----------------------------------------------------------------------------
(* Claims about the backtest of a rising series *)

\* The scenario: 60 closes, look-back 20.
RisingScenario ==
    /\ pc = "done"
    /\ call.op = "momentum"
    /\ Len(call.data["Close"]) = 60
    /\ call.lookback_period = 20

\* Every return and momentum of the frame is NaN or has a sign that its
\* enclosure decides.
SignsDecided ==
    \A t \in DOMAIN frame["Close"] :
        /\ IsNaN(frame["Momentum"][t]) \/ frame["Momentum"][t][1] > 0
              \/ frame["Momentum"][t][2] < 0
        /\ IsNaN(frame["Returns"][t]) \/ frame["Returns"][t][1] > 0
              \/ frame["Returns"][t][2] < 0

\* Buy and hold: last close / first close - 1, to six decimal places (the
\* first close is exactly 1.0).
BuyAndHold == <<Last(frame["Close"])[1] - 1000000, Last(frame["Close"])[2] - 1000000, 1000000>>

\* What the scenario promises: the signal is +1 at every bar from bar 20 on
\* (bar 21 of the model, which counts from 1), each bar's position is the
\* signal of the bar before, and total_return is above 0 and below
\* last close / first close - 1.
ScenarioOutcome ==
    /\ SignsDecided
    /\ \A t \in 21..60 : frame["Signal"][t] = R(1)
    /\ IsNaN(frame["Position"][1])
    /\ \A t \in 2..60 : frame["Position"][t] = frame["Signal"][t - 1]
    /\ result.total_return[1] > 0
    /\ result.total_return[2] * 100 < BuyAndHold[1]

TotalReturnNegativeAtTenPercent ==
    RisingScenario /\ call.commission_rate = Rat(1, 10) =>
        /\ SignsDecided
        /\ \A t \in 21..60 : frame["Signal"][t] = R(1)
        /\ \A t \in 2..60 : frame["Position"][t] = frame["Signal"][t - 1]
        /\ result.total_return[2] < 0

=============================================================================
